---------------------------- MODULE Spec2Model ----------------------------
(***************************************************************************)
(* Entitlement record and manager of NekoTick (src-tauri/src/license):     *)
(* trial + paid license, offline grace period, server-driven revocation    *)
(* and the wall-clock watermark (last_seen_utc_time).                      *)
(*                                                                         *)
(* The state is the sealed entitlement file, the wall clock, the manager   *)
(* call that is suspended on its network request (activate, deactivate     *)
(* and validate_background await the server; the clock may change while    *)
(* they wait) and the value the call just completed returns.               *)
(* Spec runs the manager's callers one call at a time, as the manager      *)
(* expects (it takes no lock); the clock is free to move in both           *)
(* directions at any time.  SpecForward is the same program under a clock  *)
(* that never moves backward.                                              *)
(*                                                                         *)
(* Within one step every chrono::Utc::now() reads the same value: clock    *)
(* reads of one handler differ only across its suspension point.           *)
(* Filesystem failures of save/delete are not modelled.                    *)
(***************************************************************************)
EXTENDS Integers, Sequences, FiniteSets, TLC

VARIABLES
    file,       \* <<>> (no .license.dat) or <<sealed file>>
    clock,      \* the wall clock, chrono::Utc::now().timestamp()
    pc,         \* "idle", or the manager call suspended on its request
    inflight,   \* <<>> or <<locals of the suspended call>>
    last,       \* the call just completed: op, branch, store call, result
    suspect,    \* <<>> or the file as a tamper-suspect read found it
    server,     \* the license server: whether its binding of this device
                \* is followed, and the key it holds the device bound to
    cancelled,  \* "none", or the call dropped at its await and not yet
                \* followed by a completed call that talks to the server
    cred_file,  \* <<>> (no .credentials.dat) or <<sealed file>>
    device,     \* the fingerprint the stores are constructed under
    keyring,    \* the legacy keyring entry: <<>> or <<tokens>>
    history,    \* <<>>, or what the callers have been told so far, when
                \* it is followed
    bg,         \* a second caller running beside the first: its position,
                \* its locals and the value it was handed
    uuid_file   \* <<>> (no .device_uuid) or <<contents>>

vars == <<file, clock, pc, inflight, last, suspect, server, cancelled,
          cred_file, device, keyring, history, bg, uuid_file>>

(* What the license manager's calls leave alone. *)
store_vars == <<cred_file, device, keyring, bg, uuid_file>>

---------------------------------------------------------------------------
(* Constants of manager.rs *)

VALIDATION_INTERVAL_SECS == 72 * 60 * 60
GRACE_PERIOD_SECS == 7 * 24 * 60 * 60
TRIAL_DURATION_SECS == 7 * 24 * 60 * 60

(* The clock values of the model: the start of the epoch and the instants  *)
(* around the program's intervals after it, chosen so that the difference  *)
(* of two of them falls exactly on, one second before and one second       *)
(* after VALIDATION_INTERVAL_SECS and GRACE_PERIOD_SECS (trial and grace   *)
(* boundaries), and MaxLate further instants one validation interval       *)
(* apart after them.                                                       *)
MaxLate == 1

Times ==
    {0, 1, VALIDATION_INTERVAL_SECS + 1, GRACE_PERIOD_SECS,
     GRACE_PERIOD_SECS + 1}
    \cup { GRACE_PERIOD_SECS + 1 + k * VALIDATION_INTERVAL_SECS :
             k \in 1..MaxLate }

(* The activation time the server reports, when it reports one. *)
ServerTimes == { VALIDATION_INTERVAL_SECS - 1 }

(* Option<T>: None is <<>>, Some(x) is <<x>>. *)
None == <<>>
Some(x) == <<x>>
is_some(o) == o # <<>>
is_none(o) == o = <<>>
unwrap_or(o, d) == IF o = <<>> THEN d ELSE o[1]

(* Result<T, E> *)
Ok(v) == [tag |-> "Ok", value |-> v]
Err(e) == [tag |-> "Err", error |-> e]

(* The fingerprint of this device (DeviceIdGenerator::generate). *)
DeviceId == "device_a"

(* License keys, as their dash-separated groups. *)
LicenseKeys == { <<"NEKO", "ABCD", "EFGH", "1234">> }

---------------------------------------------------------------------------
(* store.rs: LicenseData *)

(* HMAC-SHA256 keyed by device_id over the message                         *)
(* "{license_key}:{activated_at}:{last_validated_at}:{trial_started_at}:   *)
(*  {trial_used}:{last_seen_utc_time}": a value determined by the key and  *)
(* the six rendered fields, and by nothing else.                           *)
compute_signature(device_id, license_key, activated_at, last_validated_at, trial_started_at, trial_used, last_seen_utc_time) ==
    <<device_id,
      <<license_key, activated_at, last_validated_at, trial_started_at,
        trial_used, last_seen_utc_time>> >>

compute_signature_internal(d) ==
    compute_signature(d.device_id,
                      unwrap_or(d.license_key, <<>>),
                      unwrap_or(d.activated_at, 0),
                      unwrap_or(d.last_validated_at, 0),
                      unwrap_or(d.trial_started_at, 0),
                      d.trial_used,
                      d.last_seen_utc_time)

verify_signature(d) == d.signature = compute_signature_internal(d)

(* Variant: the signature is left as it was. *)
update_signature_kept(d) == d

update_signature(d) == [d EXCEPT !.signature = compute_signature_internal(d)]

(* Variant: the watermark is stamped but the record is not signed again. *)
update_seen_time_unsigned(d, utc_now) ==
    [d EXCEPT !.last_seen_utc_time = utc_now]

update_seen_time_and_signature(d, utc_now) ==
    update_signature([d EXCEPT !.last_seen_utc_time = utc_now])

(* Variant: the validation time is left as it was. *)
update_validation_time_stale(d, timestamp, utc_now) ==
    update_seen_time_and_signature(d, utc_now)

update_validation_time(d, timestamp, utc_now) ==
    update_seen_time_and_signature(
        [d EXCEPT !.last_validated_at = Some(timestamp)], utc_now)

(* Variant: the upgrade leaves trial_used as it finds it. *)
set_license_keeps_flag(d, license_key, activated_at, last_validated_at, utc_now) ==
    update_seen_time_and_signature(
        [d EXCEPT !.license_key = Some(license_key),
                  !.activated_at = Some(activated_at),
                  !.last_validated_at = Some(last_validated_at)], utc_now)

set_license(d, license_key, activated_at, last_validated_at, utc_now) ==
    update_seen_time_and_signature(
        [d EXCEPT !.license_key = Some(license_key),
                  !.activated_at = Some(activated_at),
                  !.last_validated_at = Some(last_validated_at),
                  !.trial_used = TRUE], utc_now)

new_with_license(license_key, device_id, activated_at, last_validated_at, utc_now) ==
    update_signature(
        [license_key |-> Some(license_key),
         device_id |-> device_id,
         activated_at |-> Some(activated_at),
         last_validated_at |-> Some(last_validated_at),
         trial_started_at |-> None,
         trial_used |-> TRUE,
         last_seen_utc_time |-> utc_now,
         signature |-> <<>>])

(* Variant: the new trial record carries no watermark. *)
new_trial_unstamped(device_id, utc_now) ==
    update_signature(
        [license_key |-> None,
         device_id |-> device_id,
         activated_at |-> None,
         last_validated_at |-> None,
         trial_started_at |-> Some(utc_now),
         trial_used |-> FALSE,
         last_seen_utc_time |-> 0,
         signature |-> <<>>])

new_trial(device_id, utc_now) ==
    update_signature(
        [license_key |-> None,
         device_id |-> device_id,
         activated_at |-> None,
         last_validated_at |-> None,
         trial_started_at |-> Some(utc_now),
         trial_used |-> FALSE,
         last_seen_utc_time |-> utc_now,
         signature |-> <<>>])

has_license(d) == is_some(d.license_key)

---------------------------------------------------------------------------
(* store.rs: LicenseStore *)

(* SHA-256 of device_id followed by the salt: a value determined by the    *)
(* concatenated string and by nothing else.                                *)
derive_encryption_key(device_id) == device_id \o "nekotick_license_v1"

(* serde_json of an Option: null, or the value. *)
json_option(o) ==
    IF is_none(o) THEN [null |-> TRUE] ELSE [null |-> FALSE, value |-> o[1]]

option_json(j) == IF j.null THEN None ELSE Some(j.value)

(* serde_json::to_string(data): the JSON object of the eight fields. *)
(* Variant: the trial start is not written out. *)
to_string_trial_dropped(d) ==
    [license_key |-> json_option(d.license_key),
     device_id |-> d.device_id,
     activated_at |-> json_option(d.activated_at),
     last_validated_at |-> json_option(d.last_validated_at),
     trial_started_at |-> json_option(None),
     trial_used |-> d.trial_used,
     last_seen_utc_time |-> d.last_seen_utc_time,
     signature |-> d.signature]

to_string(d) ==
    [license_key |-> json_option(d.license_key),
     device_id |-> d.device_id,
     activated_at |-> json_option(d.activated_at),
     last_validated_at |-> json_option(d.last_validated_at),
     trial_started_at |-> json_option(d.trial_started_at),
     trial_used |-> d.trial_used,
     last_seen_utc_time |-> d.last_seen_utc_time,
     signature |-> d.signature]

(* serde_json::from_slice(&plaintext) *)
from_slice(j) ==
    [license_key |-> option_json(j.license_key),
     device_id |-> j.device_id,
     activated_at |-> option_json(j.activated_at),
     last_validated_at |-> option_json(j.last_validated_at),
     trial_started_at |-> option_json(j.trial_started_at),
     trial_used |-> j.trial_used,
     last_seen_utc_time |-> j.last_seen_utc_time,
     signature |-> j.signature]

(* A sealed file: nonce || AES-256-GCM(key, plaintext).  It decrypts under  *)
(* the key it was sealed with when all of its bytes are there; bytes is    *)
(* "whole", "part" (12 bytes or more, the ciphertext cut short) or "none"  *)
(* (fewer than 12 bytes).                                                  *)
Sealed(key, plaintext, bytes) ==
    [key |-> key, plaintext |-> plaintext, bytes |-> bytes]

(* save, once std::fs::write has written every byte. *)
save(device_id, d) ==
    Some(Sealed(derive_encryption_key(device_id), to_string(d), "whole"))

(* load: NotFound, StorageError, CryptoError, SerializationError (the JSON *)
(* is not a LicenseData), SignatureInvalid or Ok(data).  It never touches  *)
(* the file.                                                               *)
load(device_id, f) ==
    IF f = <<>> THEN [tag |-> "NotFound"]
    ELSE IF f[1].bytes = "none"
        THEN [tag |-> "StorageError"]
    ELSE IF f[1].bytes # "whole" \/ f[1].key # derive_encryption_key(device_id)
        THEN [tag |-> "CryptoError"]
    ELSE IF "trial_used" \notin DOMAIN f[1].plaintext
        THEN [tag |-> "SerializationError"]
    ELSE LET data == from_slice(f[1].plaintext)
         IN  IF ~ verify_signature(data)
             THEN [tag |-> "SignatureInvalid"]
             ELSE IF data.device_id # device_id
             THEN [tag |-> "SignatureInvalid"]
             ELSE [tag |-> "Ok", data |-> data]

delete(f) == <<>>

---------------------------------------------------------------------------
(* encrypted_store.rs: StoredCredentials.  Strings are strings, so that    *)
(* the signed message is the text format! builds.                          *)

CREDENTIALS_SALT == "nekotick_credentials_v1"

(* HMAC-SHA256 keyed by device_id over the message "{access_token}:        *)
(* {refresh_token}:{expires_at}:{user_email or ""}:{folder_id or ""}:      *)
(* {SALT}": a value determined by the key and the message text.            *)
cred_compute_signature_internal(c) ==
    <<c.device_id,
      c.access_token \o ":" \o c.refresh_token \o ":"
        \o ToString(c.expires_at) \o ":"
        \o unwrap_or(c.user_email, "") \o ":"
        \o unwrap_or(c.folder_id, "") \o ":" \o CREDENTIALS_SALT>>

(* StoredCredentials::new *)
cred_new(device_id, access_token, refresh_token, expires_at, user_email, folder_id) ==
    LET creds == [device_id |-> device_id,
                  access_token |-> access_token,
                  refresh_token |-> refresh_token,
                  expires_at |-> expires_at,
                  user_email |-> user_email,
                  folder_id |-> folder_id,
                  signature |-> <<>>]
    IN  [creds EXCEPT !.signature = cred_compute_signature_internal(creds)]

cred_verify_signature(c) == c.signature = cred_compute_signature_internal(c)

cred_update_access_token(c, access_token, expires_at) ==
    LET u == [c EXCEPT !.access_token = access_token,
                       !.expires_at = expires_at]
    IN  [u EXCEPT !.signature = cred_compute_signature_internal(u)]

cred_update_folder_id(c, folder_id) ==
    LET u == [c EXCEPT !.folder_id = Some(folder_id)]
    IN  [u EXCEPT !.signature = cred_compute_signature_internal(u)]

cred_is_token_expiring(c, utc_now) ==
    LET five_minutes == 5 * 60
    IN  c.expires_at - utc_now < five_minutes

---------------------------------------------------------------------------
(* encrypted_store.rs: CredentialStore *)

(* Variant: the credential key is derived with the license salt. *)
cred_derive_encryption_key_license_salt(device_id) ==
    device_id \o "nekotick_license_v1"

cred_derive_encryption_key(device_id) == device_id \o CREDENTIALS_SALT

(* serde_json::to_string(creds) *)
cred_to_string(c) ==
    [device_id |-> c.device_id,
     access_token |-> c.access_token,
     refresh_token |-> c.refresh_token,
     expires_at |-> c.expires_at,
     user_email |-> json_option(c.user_email),
     folder_id |-> json_option(c.folder_id),
     signature |-> c.signature]

(* serde_json::from_slice(&plaintext) *)
cred_from_slice(j) ==
    [device_id |-> j.device_id,
     access_token |-> j.access_token,
     refresh_token |-> j.refresh_token,
     expires_at |-> j.expires_at,
     user_email |-> option_json(j.user_email),
     folder_id |-> option_json(j.folder_id),
     signature |-> j.signature]

(* save, once std::fs::write has written every byte. *)
cred_save(device_id, c) ==
    Some(Sealed(cred_derive_encryption_key(device_id), cred_to_string(c),
                "whole"))

(* Variant: the signature is checked before the device_id. *)
cred_load_signature_first(device_id, f) ==
    IF f = <<>> THEN [result |-> Err("NotFound"), file |-> f]
    ELSE IF f[1].bytes = "none"
    THEN [result |-> Err("StorageError"), file |-> f]
    ELSE IF f[1].bytes # "whole"
            \/ f[1].key # cred_derive_encryption_key(device_id)
    THEN [result |-> Err("DecryptionFailed"), file |-> f]
    ELSE IF "access_token" \notin DOMAIN f[1].plaintext
    THEN [result |-> Err("SerializationError"), file |-> f]
    ELSE LET creds == cred_from_slice(f[1].plaintext)
         IN  IF ~ cred_verify_signature(creds)
             THEN [result |-> Err("SignatureInvalid"), file |-> <<>>]
             ELSE IF creds.device_id # device_id
             THEN [result |-> Err("DeviceMismatch"), file |-> <<>>]
             ELSE [result |-> Ok(creds), file |-> f]


(* load, lines 172-209: what it returns and the file it leaves. *)
cred_load(device_id, f) ==
    IF f = <<>> THEN [result |-> Err("NotFound"), file |-> f]
    ELSE IF f[1].bytes = "none"
        THEN [result |-> Err("StorageError"), file |-> f]
    ELSE IF f[1].bytes # "whole"
            \/ f[1].key # cred_derive_encryption_key(device_id)
        THEN [result |-> Err("DecryptionFailed"), file |-> f]
    ELSE IF "access_token" \notin DOMAIN f[1].plaintext
        THEN [result |-> Err("SerializationError"), file |-> f]
    ELSE LET creds == cred_from_slice(f[1].plaintext)
         IN  IF creds.device_id # device_id
             THEN [result |-> Err("DeviceMismatch"), file |-> <<>>]
             ELSE IF ~ cred_verify_signature(creds)
             THEN [result |-> Err("SignatureInvalid"), file |-> <<>>]
             ELSE [result |-> Ok(creds), file |-> f]

cred_delete(f) == <<>>

---------------------------------------------------------------------------
(* manager.rs: status computation *)

(* Variant: the trial still counts in the second it ends. *)
calculate_trial_status_inclusive(d, current_utc) ==
    IF is_some(d.trial_started_at)
    THEN LET trial_end == d.trial_started_at[1] + TRIAL_DURATION_SECS
         IN  [is_valid |-> current_utc <= trial_end /\ ~ has_license(d),
              trial_ends_at |-> Some(trial_end)]
    ELSE [is_valid |-> FALSE, trial_ends_at |-> None]

calculate_trial_status(d, current_utc) ==
    IF is_some(d.trial_started_at)
    THEN LET trial_end == d.trial_started_at[1] + TRIAL_DURATION_SECS
         IN  [is_valid |-> current_utc < trial_end /\ ~ has_license(d),
              trial_ends_at |-> Some(trial_end)]
    ELSE [is_valid |-> FALSE, trial_ends_at |-> None]

(* Variant: validation is already due in the last second of the interval. *)
calculate_license_status_early(d, current_utc) ==
    IF is_none(d.license_key)
    THEN [is_valid |-> FALSE, needs_validation |-> FALSE,
          in_grace_period |-> FALSE, grace_period_ends_at |-> None]
    ELSE LET last_validated == unwrap_or(d.last_validated_at, 0)
             time_since_validation == current_utc - last_validated
             in_grace == time_since_validation >= VALIDATION_INTERVAL_SECS
                         /\ time_since_validation <= GRACE_PERIOD_SECS
         IN  [is_valid |-> time_since_validation <= GRACE_PERIOD_SECS,
              needs_validation |->
                  time_since_validation >= VALIDATION_INTERVAL_SECS,
              in_grace_period |-> in_grace,
              grace_period_ends_at |->
                  IF in_grace THEN Some(last_validated + GRACE_PERIOD_SECS)
                  ELSE None]

calculate_license_status(d, current_utc) ==
    IF is_none(d.license_key)
    THEN [is_valid |-> FALSE, needs_validation |-> FALSE,
          in_grace_period |-> FALSE, grace_period_ends_at |-> None]
    ELSE LET last_validated == unwrap_or(d.last_validated_at, 0)
             time_since_validation == current_utc - last_validated
             in_grace == time_since_validation > VALIDATION_INTERVAL_SECS
                         /\ time_since_validation <= GRACE_PERIOD_SECS
         IN  [is_valid |-> time_since_validation <= GRACE_PERIOD_SECS,
              needs_validation |->
                  time_since_validation > VALIDATION_INTERVAL_SECS,
              in_grace_period |-> in_grace,
              grace_period_ends_at |->
                  IF in_grace THEN Some(last_validated + GRACE_PERIOD_SECS)
                  ELSE None]

(* Variant: the mask ends with the first group of the key. *)
mask_license_key_head(key) ==
    IF Len(key) >= 4
    THEN <<key[1], "****", "****", key[1]>>
    ELSE <<"****">>

mask_license_key(key) ==
    IF Len(key) >= 4
    THEN <<key[1], "****", "****", key[Len(key)]>>
    ELSE <<"****">>

DefaultStatus ==
    [is_pro |-> FALSE, is_trial |-> FALSE, trial_ends_at |-> None,
     license_key |-> None, activated_at |-> None, last_validated_at |-> None,
     needs_validation |-> FALSE, in_grace_period |-> FALSE,
     grace_period_ends_at |-> None, time_tamper_detected |-> FALSE]

(* Variant: a clock equal to the watermark counts as rewound. *)
time_tamper_inclusive(d, current_utc) == current_utc <= d.last_seen_utc_time

(* get_status, lines 194-198: the tamper test. *)
time_tamper(d, current_utc) == current_utc < d.last_seen_utc_time

(* Variant: the watermark is written back on every read. *)
get_status_write_always(d, current_utc) ==
    Some(update_signature([d EXCEPT !.last_seen_utc_time = current_utc]))

(* Variant: the watermark is never written back. *)
get_status_write_never(d, current_utc) == None

(* get_status, lines 202-206: the record saved back, None when the read    *)
(* is tamper-suspect and nothing is saved.                                 *)
get_status_write(d, current_utc) ==
    IF ~ time_tamper(d, current_utc)
    THEN Some(update_signature([d EXCEPT !.last_seen_utc_time = current_utc]))
    ELSE None

(* Variant: is_trial is not masked by the tamper flag. *)
get_status_result_unmasked(d, current_utc) ==
    LET time_tamper_detected == time_tamper(d, current_utc)
        trial == calculate_trial_status(d, current_utc)
        lic == calculate_license_status(d, current_utc)
    IN  [is_pro |-> ~ time_tamper_detected /\ (trial.is_valid \/ lic.is_valid),
         is_trial |-> trial.is_valid,
         trial_ends_at |-> trial.trial_ends_at,
         license_key |->
             IF is_some(d.license_key)
             THEN Some(mask_license_key(d.license_key[1])) ELSE None,
         activated_at |-> d.activated_at,
         last_validated_at |-> d.last_validated_at,
         needs_validation |-> lic.needs_validation,
         in_grace_period |-> lic.in_grace_period,
         grace_period_ends_at |-> lic.grace_period_ends_at,
         time_tamper_detected |-> time_tamper_detected]

(* get_status, lines 208-233: the LicenseStatus returned for the loaded    *)
(* record d at clock value current_utc.                                    *)
get_status_result(d, current_utc) ==
    LET time_tamper_detected == time_tamper(d, current_utc)
        trial == calculate_trial_status(d, current_utc)
        lic == calculate_license_status(d, current_utc)
    IN  [is_pro |-> ~ time_tamper_detected /\ (trial.is_valid \/ lic.is_valid),
         is_trial |-> trial.is_valid /\ ~ time_tamper_detected,
         trial_ends_at |-> trial.trial_ends_at,
         license_key |->
             IF is_some(d.license_key)
             THEN Some(mask_license_key(d.license_key[1])) ELSE None,
         activated_at |-> d.activated_at,
         last_validated_at |-> d.last_validated_at,
         needs_validation |-> lic.needs_validation,
         in_grace_period |-> lic.in_grace_period,
         grace_period_ends_at |-> lic.grace_period_ends_at,
         time_tamper_detected |-> time_tamper_detected]

ValidationResult(success, downgraded, in_grace_period) ==
    [success |-> success, downgraded |-> downgraded,
     in_grace_period |-> in_grace_period]

(* Variant: the downgrade hands the trial flag back. *)
downgrade_trial_unused(d) ==
    update_signature([d EXCEPT !.license_key = None,
                               !.activated_at = None,
                               !.last_validated_at = None,
                               !.trial_used = FALSE])

(* Variant: the downgrade clears the key and keeps the two timestamps. *)
downgrade_partial(d) ==
    update_signature([d EXCEPT !.license_key = None])

(* Variant: the downgrade clears the trial with the license. *)
downgrade_with_trial(d) ==
    update_signature([d EXCEPT !.license_key = None,
                               !.activated_at = None,
                               !.last_validated_at = None,
                               !.trial_started_at = None])

(* validate_background, lines 323-326 and 362-365: the downgrade. *)
downgrade(d) ==
    update_signature([d EXCEPT !.license_key = None,
                               !.activated_at = None,
                               !.last_validated_at = None])

---------------------------------------------------------------------------
(* manager.rs: the handlers, as functions of the file, the clock and the   *)
(* server's answer.  Each returns the file it leaves (file), the store     *)
(* call it made (io: "none", "save" or "delete"), the branch it took and   *)
(* what it returns to its caller (result).                                 *)

Outcome(f, io, branch, result) ==
    [file |-> f, io |-> io, branch |-> branch, result |-> result]

(* Variant: a record without a trial start gets one, trial_used or not. *)
ensure_trial_initialized_again(f, utc_now) ==
    LET r == load(DeviceId, f)
    IN  IF r.tag = "Ok"
        THEN IF is_none(r.data.trial_started_at)
             THEN Outcome(save(DeviceId,
                               update_signature(
                                   [r.data EXCEPT
                                       !.trial_started_at = Some(utc_now),
                                       !.last_seen_utc_time = utc_now])),
                          "save", "start_trial", Ok(<<>>))
             ELSE Outcome(f, "none", "exists", Ok(<<>>))
        ELSE IF r.tag = "NotFound"
        THEN Outcome(save(DeviceId, new_trial(DeviceId, utc_now)),
                     "save", "create_trial", Ok(<<>>))
        ELSE Outcome(f, "none", "load_error", Err(r.tag))

(* Variant: a file that does not load is replaced by a new trial. *)
ensure_trial_initialized_over_error(f, utc_now) ==
    LET r == load(DeviceId, f)
    IN  IF r.tag = "Ok"
        THEN IF is_none(r.data.trial_started_at) /\ ~ r.data.trial_used
             THEN Outcome(save(DeviceId,
                               update_signature(
                                   [r.data EXCEPT
                                       !.trial_started_at = Some(utc_now),
                                       !.last_seen_utc_time = utc_now])),
                          "save", "start_trial", Ok(<<>>))
             ELSE Outcome(f, "none", "exists", Ok(<<>>))
        ELSE Outcome(save(DeviceId, new_trial(DeviceId, utc_now)),
                     "save", "create_trial", Ok(<<>>))

(* ensure_trial_initialized, lines 90-115 *)
ensure_trial_initialized(f, utc_now) ==
    LET r == load(DeviceId, f)
    IN  IF r.tag = "Ok"
        THEN IF is_none(r.data.trial_started_at) /\ ~ r.data.trial_used
             THEN Outcome(save(DeviceId,
                               update_signature(
                                   [r.data EXCEPT
                                       !.trial_started_at = Some(utc_now),
                                       !.last_seen_utc_time = utc_now])),
                          "save", "start_trial", Ok(<<>>))
             ELSE Outcome(f, "none", "exists", Ok(<<>>))
        ELSE IF r.tag = "NotFound"
        THEN Outcome(save(DeviceId, new_trial(DeviceId, utc_now)),
                     "save", "create_trial", Ok(<<>>))
        ELSE Outcome(f, "none", "load_error", Err(r.tag))

(* get_status, lines 188-234 *)
get_status(f, current_utc) ==
    LET r == load(DeviceId, f)
    IN  IF r.tag # "Ok"
        THEN Outcome(f, "none", "default", DefaultStatus)
        ELSE LET w == get_status_write(r.data, current_utc)
                 data == unwrap_or(w, r.data)
             IN  Outcome(IF is_some(w) THEN save(DeviceId, w[1]) ELSE f,
                         IF is_some(w) THEN "save" ELSE "none",
                         IF is_some(w) THEN "sane" ELSE "tamper",
                         get_status_result(data, current_utc))

(* The server's answers.  A network error is a transport failure, a        *)
(* non-2xx status or a body that does not parse (api.rs).                  *)
NetworkError == [tag |-> "Err", error |-> "NetworkError"]

ActivateResponses ==
    {NetworkError}
    \cup { Ok([success |-> TRUE, activated_at |-> a,
               error_code |-> None, error |-> None]) :
             a \in {None} \cup { Some(t) : t \in ServerTimes } }
    \cup { Ok([success |-> FALSE, activated_at |-> None,
               error_code |-> Some("INVALID_KEY"),
               error |-> Some("License key is not valid")]) }

PlainResponses ==
    { NetworkError,
      Ok([success |-> TRUE, error_code |-> None, error |-> None]),
      Ok([success |-> FALSE, error_code |-> Some("REVOKED"),
          error |-> Some("License revoked")]),
      Ok([success |-> FALSE, error_code |-> None, error |-> None]) }

(* Variant: the record is written before the answer's success is read. *)
activate_eager(f, license_key, response, utc_now) ==
    IF response.tag = "Err"
    THEN Outcome(f, "none", "network_error", response)
    ELSE LET activated_at == unwrap_or(response.value.activated_at, utc_now)
             r == load(DeviceId, f)
             written ==
                 IF r.tag = "Ok"
                 THEN save(DeviceId,
                           set_license(r.data, license_key, activated_at,
                                       utc_now, utc_now))
                 ELSE save(DeviceId,
                           new_with_license(license_key, DeviceId,
                                            activated_at, utc_now, utc_now))
         IN  IF response.value.success
             THEN Outcome(written, "save",
                          IF r.tag = "Ok" THEN "upgraded" ELSE "created",
                          Ok([success |-> TRUE, error_code |-> None,
                              error_message |-> None]))
             ELSE Outcome(written, "save", "rejected",
                          Ok([success |-> FALSE,
                              error_code |-> response.value.error_code,
                              error_message |-> response.value.error]))

(* activate, lines 118-157, from the server's answer on *)
activate(f, license_key, response, utc_now) ==
    IF response.tag = "Err"
    THEN Outcome(f, "none", "network_error", response)
    ELSE IF response.value.success
    THEN LET activated_at == unwrap_or(response.value.activated_at, utc_now)
             now == utc_now
             r == load(DeviceId, f)
         IN  IF r.tag = "Ok"
             THEN Outcome(save(DeviceId,
                               set_license(r.data, license_key, activated_at,
                                           now, utc_now)),
                          "save", "upgraded",
                          Ok([success |-> TRUE, error_code |-> None,
                              error_message |-> None]))
             ELSE Outcome(save(DeviceId,
                               new_with_license(license_key, DeviceId,
                                                activated_at, now, utc_now)),
                          "save", "created",
                          Ok([success |-> TRUE, error_code |-> None,
                              error_message |-> None]))
    ELSE Outcome(f, "none", "rejected",
                 Ok([success |-> FALSE,
                     error_code |-> response.value.error_code,
                     error_message |-> response.value.error]))

(* deactivate, lines 160-172: up to the request *)
deactivate_begin(f) ==
    LET r == load(DeviceId, f)
    IN  IF r.tag # "Ok" THEN Err(r.tag)
        ELSE IF is_none(r.data.license_key) THEN Err("NotFound")
        ELSE Ok(r.data.license_key[1])

(* Variant: the record is deleted whatever the server answers. *)
deactivate_finish_always(f, response) ==
    IF response.tag = "Err"
    THEN Outcome(f, "none", "network_error", response)
    ELSE IF response.value.success
    THEN Outcome(delete(f), "delete", "deleted", Ok(<<>>))
    ELSE Outcome(delete(f), "delete", "rejected",
                 Err([code |-> unwrap_or(response.value.error_code, ""),
                      message |-> unwrap_or(response.value.error,
                                            "Deactivation failed")]))

(* deactivate, lines 174-183: from the server's answer on *)
deactivate_finish(f, response) ==
    IF response.tag = "Err"
    THEN Outcome(f, "none", "network_error", response)
    ELSE IF response.value.success
    THEN Outcome(delete(f), "delete", "deleted", Ok(<<>>))
    ELSE Outcome(f, "none", "rejected",
                 Err([code |-> unwrap_or(response.value.error_code, ""),
                      message |-> unwrap_or(response.value.error,
                                            "Deactivation failed")]))

(* Variant: the tamper test of validate_background is dropped. *)
validate_time_tampered_never(d, current_utc) == FALSE

(* validate_background, lines 303-305: the tamper test. *)
validate_time_tampered(d, current_utc) == current_utc < d.last_seen_utc_time

(* validate_background, lines 279-305: up to the request.  Returns either  *)
(* the early result or the locals kept across the request.                 *)
validate_begin(f, utc_now) ==
    LET r == load(DeviceId, f)
    IN  IF r.tag = "NotFound"
        THEN [early |-> TRUE, branch |-> "no_record",
              result |-> Ok(ValidationResult(FALSE, FALSE, FALSE))]
        ELSE IF r.tag # "Ok"
        THEN [early |-> TRUE, branch |-> "load_error", result |-> Err(r.tag)]
        ELSE IF is_none(r.data.license_key)
        THEN [early |-> TRUE, branch |-> "no_license",
              result |-> Ok(ValidationResult(FALSE, FALSE, FALSE))]
        ELSE [early |-> FALSE,
              data |-> r.data,
              license_key |-> r.data.license_key[1],
              current_utc |-> utc_now,
              time_tampered |-> validate_time_tampered(r.data, utc_now)]

(* Variant: without an answer the record is downgraded at once, grace     *)
(* period or not.                                                          *)
validate_finish_no_grace(l, f, response, utc_now) ==
    IF response.tag = "Ok"
    THEN IF response.value.success
         THEN Outcome(save(DeviceId,
                           update_validation_time(l.data, utc_now, utc_now)),
                      "save", "validated",
                      Ok(ValidationResult(TRUE, FALSE, FALSE)))
         ELSE Outcome(save(DeviceId, downgrade(l.data)),
                      "save", "revoked",
                      Ok(ValidationResult(FALSE, TRUE, FALSE)))
    ELSE IF l.time_tampered
    THEN Outcome(f, "none", "offline_tamper",
                 Ok(ValidationResult(FALSE, FALSE, FALSE)))
    ELSE Outcome(save(DeviceId, downgrade(l.data)),
                 "save", "offline_lapsed",
                 Ok(ValidationResult(FALSE, TRUE, FALSE)))

(* validate_background, lines 308-375: from the server's answer on.        *)
(* l are the locals of validate_begin, f the file now, utc_now the clock.  *)
validate_finish(l, f, response, utc_now) ==
    IF response.tag = "Ok"
    THEN IF response.value.success
         THEN Outcome(save(DeviceId,
                           update_validation_time(l.data, utc_now, utc_now)),
                      "save", "validated",
                      Ok(ValidationResult(TRUE, FALSE, FALSE)))
         ELSE Outcome(save(DeviceId, downgrade(l.data)),
                      "save", "revoked",
                      Ok(ValidationResult(FALSE, TRUE, FALSE)))
    ELSE IF l.time_tampered
    THEN Outcome(f, "none", "offline_tamper",
                 Ok(ValidationResult(FALSE, FALSE, FALSE)))
    ELSE LET last_validated == unwrap_or(l.data.last_validated_at, 0)
             time_since_validation == l.current_utc - last_validated
         IN  IF time_since_validation <= GRACE_PERIOD_SECS
             THEN Outcome(save(DeviceId,
                               update_seen_time_and_signature(l.data, utc_now)),
                          "save", "offline_grace",
                          Ok(ValidationResult(FALSE, FALSE, TRUE)))
             ELSE Outcome(save(DeviceId, downgrade(l.data)),
                          "save", "offline_lapsed",
                          Ok(ValidationResult(FALSE, TRUE, FALSE)))

---------------------------------------------------------------------------
(* A call that completes hands its caller a value: last holds the call's   *)
(* name, the server's answer it got (<<>> when it made no request), the    *)
(* branch it took, the store call it made and what it returned, from the   *)
(* step that completes the call to the step in which the caller takes the  *)
(* value (Return).                                                         *)

(* The license server, as seen through api.rs.  Untracked: any answer can  *)
(* come at any time.  Tracked: the server remembers the key this device is *)
(* bound to; activate binds it, deactivate unbinds it, validate succeeds   *)
(* exactly for the bound key.  A request that ends in a network error has  *)
(* changed nothing on the server. *)
Untracked == [tracked |-> FALSE, holds |-> None]

ServerAnswers(srv, endpoint, license_key, response) ==
    IF ~ srv.tracked THEN TRUE
    ELSE IF response.tag = "Err" THEN TRUE
    ELSE IF endpoint = "validate"
    THEN response.value.success = (srv.holds = Some(license_key))
    ELSE IF endpoint = "deactivate"
    THEN response.value.success => (srv.holds = Some(license_key))
    ELSE TRUE

ServerAfter(srv, endpoint, license_key, response) ==
    IF ~ srv.tracked THEN srv
    ELSE IF response.tag = "Err" THEN srv
    ELSE IF ~ response.value.success THEN srv
    ELSE IF endpoint = "activate"
    THEN [srv EXCEPT !.holds = Some(license_key)]
    ELSE IF endpoint = "deactivate"
    THEN [srv EXCEPT !.holds = None]
    ELSE srv

NoCall ==
    [op |-> "none", input |-> <<>>, branch |-> "none", result |-> <<>>,
     io |-> "none"]

Done(op, input, branch, result, io) ==
    [op |-> op, input |-> input, branch |-> branch, result |-> result,
     io |-> io]

(* What the callers remember of the answers they got.  NoHistory: nobody  *)
(* keeps track.  Followed: expired holds the trial starts that a read with *)
(* a sane clock has found past their end; lapsed says that                 *)
(* validate_background has downgraded for an exceeded grace period since   *)
(* the last successful activate; forfeited says that a record whose trial  *)
(* was used or over has been deleted by deactivate since then.             *)
NoHistory == <<>>

NewHistory == [expired |-> {}, lapsed |-> FALSE, forfeited |-> FALSE]

(* Whether the trial of record d is over at current_utc (manager.rs:239-241). *)
trial_over(d, current_utc) ==
    /\ is_some(d.trial_started_at)
    /\ current_utc >= d.trial_started_at[1] + TRIAL_DURATION_SECS

note_get_status(h, f, current_utc, branch) ==
    IF h = NoHistory \/ branch # "sane" THEN h
    ELSE LET d == load(DeviceId, f).data
         IN  IF trial_over(d, current_utc)
             THEN [h EXCEPT !.expired = @ \cup {d.trial_started_at[1]}]
             ELSE h

note_activate(h, branch) ==
    IF h = NoHistory THEN h
    ELSE IF branch \in {"upgraded", "created"}
    THEN [h EXCEPT !.lapsed = FALSE, !.forfeited = FALSE]
    ELSE h

note_deactivate(h, f, current_utc, branch) ==
    IF h = NoHistory \/ branch # "deleted" THEN h
    ELSE LET d == load(DeviceId, f).data
         IN  [h EXCEPT !.expired = {},
                       !.forfeited = d.trial_used \/ trial_over(d, current_utc)]

note_validate(h, branch) ==
    IF h = NoHistory THEN h
    ELSE IF branch = "offline_lapsed" THEN [h EXCEPT !.lapsed = TRUE]
    ELSE h

(* The second caller: not running, nothing kept, nothing handed over. *)
NoCaller == [pc |-> "idle", locals |-> <<>>, last |-> NoCall]

Init ==
    /\ file = <<>>
    /\ clock \in Times
    /\ pc = "idle"
    /\ inflight = <<>>
    /\ last = NoCall
    /\ suspect = <<>>
    /\ server = Untracked
    /\ cancelled = "none"
    /\ cred_file = <<>>
    /\ device = DeviceId
    /\ keyring = <<>>
    /\ history = NoHistory
    /\ bg = NoCaller
    /\ uuid_file = <<>>

(* The same start with a server whose binding of the device is followed:   *)
(* the device is not activated. *)
InitServer ==
    /\ file = <<>>
    /\ clock \in Times
    /\ pc = "idle"
    /\ inflight = <<>>
    /\ last = NoCall
    /\ suspect = <<>>
    /\ server = [tracked |-> TRUE, holds |-> None]
    /\ cancelled = "none"
    /\ cred_file = <<>>
    /\ device = DeviceId
    /\ keyring = <<>>
    /\ history = NoHistory
    /\ bg = NoCaller
    /\ uuid_file = <<>>

EnsureTrialInitialized ==
    /\ pc = "idle"
    /\ UNCHANGED <<store_vars, history>>
    /\ LET o == ensure_trial_initialized(file, clock)
       IN  /\ file' = o.file
           /\ last' = Done("ensure_trial_initialized", <<>>, o.branch,
                           o.result, o.io)
    /\ pc' = "returned"
    /\ suspect' = <<>>
    /\ UNCHANGED <<clock, inflight, server, cancelled>>

(* suspect keeps the file as the first of a run of tamper-suspect reads    *)
(* found it, up to and including the first sane read after them (branch    *)
(* "healed").                                                              *)
GetStatus ==
    /\ pc = "idle"
    /\ UNCHANGED store_vars
    /\ LET o == get_status(file, clock)
       IN  /\ file' = o.file
           /\ history' = note_get_status(history, file, clock, o.branch)
           /\ last' = Done("get_status", <<>>,
                           IF o.branch = "sane" /\ suspect # <<>>
                           THEN "healed" ELSE o.branch,
                           o.result, o.io)
           /\ suspect' = IF o.branch = "tamper" /\ suspect = <<>>
                         THEN file
                         ELSE IF o.branch = "default" THEN <<>>
                         ELSE suspect
    /\ pc' = "returned"
    /\ UNCHANGED <<clock, inflight, server, cancelled>>

ActivateBegin(license_key) ==
    /\ pc = "idle"
    /\ UNCHANGED <<store_vars, history>>
    /\ pc' = "activate"
    /\ inflight' = Some([license_key |-> license_key])
    /\ suspect' = <<>>
    /\ UNCHANGED <<file, clock, last, server, cancelled>>

ActivateFinish(response) ==
    /\ pc = "activate"
    /\ UNCHANGED store_vars
    /\ LET o == activate(file, inflight[1].license_key, response, clock)
       IN  /\ file' = o.file
           /\ history' = note_activate(history, o.branch)
           /\ last' = Done("activate", response, o.branch, o.result, o.io)
    /\ ServerAnswers(server, "activate", inflight[1].license_key, response)
    /\ server' = ServerAfter(server, "activate", inflight[1].license_key,
                             response)
    /\ cancelled' = "none"
    /\ pc' = "returned"
    /\ inflight' = <<>>
    /\ UNCHANGED <<clock, suspect>>

DeactivateBegin ==
    /\ pc = "idle"
    /\ UNCHANGED <<store_vars, history>>
    /\ LET b == deactivate_begin(file)
       IN  IF b.tag = "Err"
           THEN /\ last' = Done("deactivate", <<>>, "no_license", b, "none")
                /\ pc' = "returned"
                /\ UNCHANGED inflight
           ELSE /\ pc' = "deactivate"
                /\ inflight' = Some([license_key |-> b.value])
                /\ UNCHANGED last
    /\ suspect' = <<>>
    /\ UNCHANGED <<file, clock, server, cancelled>>

DeactivateFinish(response) ==
    /\ pc = "deactivate"
    /\ UNCHANGED store_vars
    /\ LET o == deactivate_finish(file, response)
       IN  /\ file' = o.file
           /\ history' = note_deactivate(history, file, clock, o.branch)
           /\ last' = Done("deactivate", response, o.branch, o.result, o.io)
    /\ ServerAnswers(server, "deactivate", inflight[1].license_key, response)
    /\ server' = ServerAfter(server, "deactivate", inflight[1].license_key,
                             response)
    /\ cancelled' = "none"
    /\ pc' = "returned"
    /\ inflight' = <<>>
    /\ UNCHANGED <<clock, suspect>>

ValidateBegin ==
    /\ pc = "idle"
    /\ UNCHANGED <<store_vars, history>>
    /\ LET b == validate_begin(file, clock)
       IN  IF b.early
           THEN /\ last' = Done("validate_background", <<>>, b.branch,
                                b.result, "none")
                /\ pc' = "returned"
                /\ cancelled' = "none"
                /\ UNCHANGED inflight
           ELSE /\ pc' = "validate"
                /\ inflight' = Some(b)
                /\ UNCHANGED <<last, cancelled>>
    /\ suspect' = <<>>
    /\ UNCHANGED <<file, clock, server>>

ValidateFinish(response) ==
    /\ pc = "validate"
    /\ UNCHANGED store_vars
    /\ LET o == validate_finish(inflight[1], file, response, clock)
       IN  /\ file' = o.file
           /\ history' = note_validate(history, o.branch)
           /\ last' = Done("validate_background", response, o.branch,
                           o.result, o.io)
    /\ ServerAnswers(server, "validate", inflight[1].license_key, response)
    /\ cancelled' = "none"
    /\ pc' = "returned"
    /\ inflight' = <<>>
    /\ UNCHANGED <<clock, suspect, server>>

(* The caller takes the value the call returned. *)
Return ==
    /\ pc = "returned"
    /\ UNCHANGED <<store_vars, history>>
    /\ pc' = "idle"
    /\ last' = NoCall
    /\ suspect' = IF last.op = "get_status" /\ last.branch = "tamper"
                  THEN suspect ELSE <<>>
    /\ UNCHANGED <<file, clock, inflight, server, cancelled>>

(* The user, NTP or the passage of time sets the wall clock. *)
ClockChange ==
    /\ pc # "returned"
    /\ UNCHANGED <<store_vars, history>>
    /\ \E t \in Times \ {clock} : clock' = t
    /\ UNCHANGED <<file, pc, inflight, last, suspect, server, cancelled>>

(* Time passes or the clock is set forward: it never moves backward. *)
ClockForward ==
    /\ pc # "returned"
    /\ UNCHANGED <<store_vars, history>>
    /\ \E t \in Times : t > clock /\ clock' = t
    /\ UNCHANGED <<file, pc, inflight, last, suspect, server, cancelled>>

(* The host drops a call at its await after the server has accepted the   *)
(* request (activate, deactivate) or answered it (validate): the server's  *)
(* binding has changed, the rest of the handler never runs and nothing is  *)
(* returned.                                                               *)
CancelActivate(response) ==
    /\ pc = "activate"
    /\ UNCHANGED <<store_vars, history>>
    /\ response.tag = "Ok"
    /\ response.value.success
    /\ ServerAnswers(server, "activate", inflight[1].license_key, response)
    /\ server' = ServerAfter(server, "activate", inflight[1].license_key,
                             response)
    /\ cancelled' = "activate"
    /\ pc' = "idle"
    /\ inflight' = <<>>
    /\ UNCHANGED <<file, clock, last, suspect>>

CancelDeactivate(response) ==
    /\ pc = "deactivate"
    /\ UNCHANGED <<store_vars, history>>
    /\ response.tag = "Ok"
    /\ response.value.success
    /\ ServerAnswers(server, "deactivate", inflight[1].license_key, response)
    /\ server' = ServerAfter(server, "deactivate", inflight[1].license_key,
                             response)
    /\ cancelled' = "deactivate"
    /\ pc' = "idle"
    /\ inflight' = <<>>
    /\ UNCHANGED <<file, clock, last, suspect>>

CancelValidate(response) ==
    /\ pc = "validate"
    /\ UNCHANGED <<store_vars, history>>
    /\ response.tag = "Ok"
    /\ ServerAnswers(server, "validate", inflight[1].license_key, response)
    /\ cancelled' = "validate"
    /\ pc' = "idle"
    /\ inflight' = <<>>
    /\ UNCHANGED <<file, clock, last, suspect, server>>

Calls ==
    \/ EnsureTrialInitialized
    \/ GetStatus
    \/ \E k \in LicenseKeys : ActivateBegin(k)
    \/ \E r \in ActivateResponses : ActivateFinish(r)
    \/ DeactivateBegin
    \/ \E r \in PlainResponses : DeactivateFinish(r)
    \/ ValidateBegin
    \/ \E r \in PlainResponses : ValidateFinish(r)
    \/ Return

Next == Calls \/ ClockChange

Spec == Init /\ [][Next]_vars

NextForward == Calls \/ ClockForward

SpecForward == Init /\ [][NextForward]_vars

(* The same callers, with what they have been told kept in history. *)
InitHistory ==
    /\ file = <<>>
    /\ clock \in Times
    /\ pc = "idle"
    /\ inflight = <<>>
    /\ last = NoCall
    /\ suspect = <<>>
    /\ server = Untracked
    /\ cancelled = "none"
    /\ cred_file = <<>>
    /\ device = DeviceId
    /\ keyring = <<>>
    /\ history = NewHistory
    /\ bg = NoCaller
    /\ uuid_file = <<>>

SpecHistory == InitHistory /\ [][Next]_vars

SpecHistoryForward == InitHistory /\ [][NextForward]_vars

(* Serialized callers under a clock that never moves backward, with a      *)
(* server whose binding is followed and calls that can be dropped at their *)
(* await. *)
NextServer ==
    \/ Calls
    \/ ClockForward
    \/ \E r \in ActivateResponses : CancelActivate(r)
    \/ \E r \in PlainResponses : CancelDeactivate(r)
    \/ \E r \in PlainResponses : CancelValidate(r)

SpecServer == InitServer /\ [][NextServer]_vars

---------------------------------------------------------------------------
(* The two sealed stores on their own: records are saved, loaded, deleted, *)
(* rewritten by someone who can seal under the device's key, moved between *)
(* the two file names, and carried to another device.  std::fs::write is   *)
(* followed byte by byte: it creates or truncates the file, writes, and    *)
(* returns, and the process can die in between.  One file is in play at a  *)
(* time.                                                                   *)

Devices == { "device_a", "device_b" }

OtherDevice(d) == CHOOSE o \in Devices : o # d

StoreTimes == { 0, 1 }

(* What the license manager hands to LicenseStore::save. *)
LicenseSaves(device_id) ==
    { new_trial(device_id, t) : t \in StoreTimes }
    \cup { new_with_license(k, device_id, t, t, t) :
              k \in LicenseKeys, t \in StoreTimes }
    \cup { set_license(new_trial(device_id, 0), k, t, t, t) :
              k \in LicenseKeys, t \in StoreTimes }

(* The values a rewritten LicenseData field can take. *)
LicenseFieldValues(field) ==
    IF field = "license_key"
    THEN {None, Some(<<>>)} \cup { Some(k) : k \in LicenseKeys }
    ELSE IF field = "trial_used" THEN BOOLEAN
    ELSE IF field = "last_seen_utc_time" THEN StoreTimes
    ELSE IF field = "device_id" THEN Devices
    ELSE {None} \cup { Some(t) : t \in StoreTimes }

LicenseFields ==
    { "license_key", "device_id", "activated_at", "last_validated_at",
      "trial_started_at", "trial_used", "last_seen_utc_time" }

AccessTokens == { "a", "a:b" }
RefreshTokens == { "c", "b:c" }
ExpiresAts == { 300, 301 }
UserEmails == { None, Some(""), Some("e@x") }
FolderIds == { None, Some("f") }

(* What the callers hand to CredentialStore::save. *)
CredentialSaves(device_id) ==
    { cred_new(device_id, a, r, e, u, f) :
        a \in AccessTokens, r \in RefreshTokens, e \in ExpiresAts,
        u \in UserEmails, f \in FolderIds }

InitStore ==
    /\ file = <<>>
    /\ cred_file = <<>>
    /\ device \in Devices
    /\ keyring = <<>>
    /\ history = NoHistory
    /\ bg = NoCaller
    /\ uuid_file = <<>>
    /\ clock = 0
    /\ pc = "idle"
    /\ inflight = <<>>
    /\ last = NoCall
    /\ suspect = <<>>
    /\ server = Untracked
    /\ cancelled = "none"

(* What the store calls leave alone. *)
manager_vars ==
    <<clock, suspect, server, cancelled, keyring, history, bg, uuid_file>>

(* LicenseStore::save up to File::create inside std::fs::write: the file   *)
(* exists and is empty.                                                    *)
LicenseSaveBegin(d) ==
    /\ pc = "idle"
    /\ cred_file = <<>>
    /\ file' = Some(Sealed(derive_encryption_key(device), to_string(d),
                           "none"))
    /\ pc' = "saving"
    /\ inflight' = Some([store |-> "license", data |-> d])
    /\ UNCHANGED <<cred_file, device, last>>
    /\ UNCHANGED manager_vars

(* CredentialStore::save up to File::create inside std::fs::write. *)
CredentialSaveBegin(c) ==
    /\ pc = "idle"
    /\ file = <<>>
    /\ cred_file' = Some(Sealed(cred_derive_encryption_key(device),
                                cred_to_string(c), "none"))
    /\ pc' = "saving"
    /\ inflight' = Some([store |-> "credentials", data |-> c])
    /\ UNCHANGED <<file, device, last>>
    /\ UNCHANGED manager_vars

(* std::fs::write has written the first bytes. *)
SaveWrite ==
    /\ pc = "saving"
    /\ IF inflight[1].store = "license"
       THEN /\ file[1].bytes = "none"
            /\ file' = Some([file[1] EXCEPT !.bytes = "part"])
            /\ UNCHANGED cred_file
       ELSE /\ cred_file[1].bytes = "none"
            /\ cred_file' = Some([cred_file[1] EXCEPT !.bytes = "part"])
            /\ UNCHANGED file
    /\ UNCHANGED <<pc, inflight, device, last>>
    /\ UNCHANGED manager_vars

(* std::fs::write has written the last byte and save returns Ok(()). *)
SaveEnd ==
    /\ pc = "saving"
    /\ IF inflight[1].store = "license"
       THEN /\ file[1].bytes = "part"
            /\ file' = Some([file[1] EXCEPT !.bytes = "whole"])
            /\ UNCHANGED cred_file
       ELSE /\ cred_file[1].bytes = "part"
            /\ cred_file' = Some([cred_file[1] EXCEPT !.bytes = "whole"])
            /\ UNCHANGED file
    /\ last' = Done(inflight[1].store \o "_save", inflight[1].data, "saved",
                    Ok(<<>>), "save")
    /\ pc' = "returned"
    /\ inflight' = <<>>
    /\ UNCHANGED device
    /\ UNCHANGED manager_vars

(* The process dies during the write and is started again. *)
Crash ==
    /\ pc = "saving"
    /\ pc' = "idle"
    /\ inflight' = <<>>
    /\ UNCHANGED <<file, cred_file, device, last>>
    /\ UNCHANGED manager_vars

LicenseLoad ==
    /\ pc = "idle"
    /\ LET r == load(device, file)
       IN  last' = Done("license_load", <<>>, r.tag, r, "none")
    /\ pc' = "returned"
    /\ UNCHANGED <<file, cred_file, device, inflight>>
    /\ UNCHANGED manager_vars

CredentialLoad ==
    /\ pc = "idle"
    /\ LET r == cred_load(device, cred_file)
       IN  /\ cred_file' = r.file
           /\ last' = Done("credentials_load", <<>>,
                           IF r.result.tag = "Ok" THEN "Ok"
                           ELSE r.result.error,
                           r.result,
                           IF r.file = cred_file THEN "none" ELSE "delete")
    /\ pc' = "returned"
    /\ UNCHANGED <<file, device, inflight>>
    /\ UNCHANGED manager_vars

LicenseDelete ==
    /\ pc = "idle"
    /\ file # <<>>
    /\ file' = delete(file)
    /\ last' = Done("license_delete", <<>>, "deleted", Ok(<<>>), "delete")
    /\ pc' = "returned"
    /\ UNCHANGED <<cred_file, device, inflight>>
    /\ UNCHANGED manager_vars

CredentialDelete ==
    /\ pc = "idle"
    /\ cred_file # <<>>
    /\ cred_file' = cred_delete(cred_file)
    /\ last' = Done("credentials_delete", <<>>, "deleted", Ok(<<>>), "delete")
    /\ pc' = "returned"
    /\ UNCHANGED <<file, device, inflight>>
    /\ UNCHANGED manager_vars

(* Someone who can seal under the device's key rewrites one field of the   *)
(* entitlement record that loads, and leaves the signature as it is.       *)
TamperLicense(field, value) ==
    /\ pc = "idle"
    /\ load(device, file).tag = "Ok"
    /\ LET d == load(device, file).data
       IN  /\ value # d[field]
           /\ file' = Some(Sealed(file[1].key,
                                  to_string([d EXCEPT ![field] = value]),
                                  "whole"))
    /\ UNCHANGED <<cred_file, device, pc, inflight, last>>
    /\ UNCHANGED manager_vars

(* The same for the credential record: any other record, under the         *)
(* signature of the one that loads.                                        *)
TamperCredentials(c) ==
    /\ pc = "idle"
    /\ cred_load(device, cred_file).result.tag = "Ok"
    /\ LET old == cred_load(device, cred_file).result.value
           new == [c EXCEPT !.signature = old.signature]
       IN  /\ new # old
           /\ cred_file' = Some(Sealed(cred_file[1].key, cred_to_string(new),
                                       "whole"))
    /\ UNCHANGED <<file, device, pc, inflight, last>>
    /\ UNCHANGED manager_vars

(* The application directory is carried to another device. *)
DeviceChange ==
    /\ pc = "idle"
    /\ \E d \in Devices \ {device} : device' = d
    /\ UNCHANGED <<file, cred_file, pc, inflight, last>>
    /\ UNCHANGED manager_vars

(* .license.dat is renamed to .credentials.dat, or the reverse. *)
MoveLicenseFile ==
    /\ pc = "idle"
    /\ file # <<>>
    /\ cred_file = <<>>
    /\ cred_file' = file
    /\ file' = <<>>
    /\ UNCHANGED <<device, pc, inflight, last>>
    /\ UNCHANGED manager_vars

MoveCredentialsFile ==
    /\ pc = "idle"
    /\ cred_file # <<>>
    /\ file = <<>>
    /\ file' = cred_file
    /\ cred_file' = <<>>
    /\ UNCHANGED <<device, pc, inflight, last>>
    /\ UNCHANGED manager_vars

NextStore ==
    \/ \E d \in LicenseSaves(device) : LicenseSaveBegin(d)
    \/ \E c \in CredentialSaves(device) : CredentialSaveBegin(c)
    \/ SaveWrite
    \/ SaveEnd
    \/ Crash
    \/ LicenseLoad
    \/ CredentialLoad
    \/ LicenseDelete
    \/ CredentialDelete
    \/ \E field \in LicenseFields :
          \E value \in LicenseFieldValues(field) : TamperLicense(field, value)
    \/ \E d \in Devices :
          \E c \in CredentialSaves(d) : TamperCredentials(c)
    \/ DeviceChange
    \/ MoveLicenseFile
    \/ MoveCredentialsFile
    \/ Return

SpecStore == InitStore /\ [][NextStore]_vars

---------------------------------------------------------------------------
(* The PRO gate of automatic sync beside the license commands. *)

(* license/commands.rs, get_app_data_dir: dirs::home_dir().join(".nekotick") *)
get_app_data_dir == "home_dir/.nekotick"

(* google_drive/commands.rs:513, app.path().app_data_dir(): the platform's *)
(* data directory joined with the bundle identifier.                       *)
app_data_dir == "data_dir/bundle_identifier"

(* The .license.dat under a directory, f being the one under               *)
(* get_app_data_dir.  No command writes one anywhere else: a               *)
(* LicenseManager over another directory is built only by                  *)
(* auto_sync_to_drive, whose get_status saves only a record it has loaded. *)
license_file_in(dir, f) == IF dir = get_app_data_dir THEN f ELSE <<>>

(* auto_sync_to_drive, lines 508-526: the status its manager reads, the    *)
(* file the license commands see afterwards, and the gate's decision.      *)
auto_sync_to_drive(f, current_utc) ==
    LET o == get_status(license_file_in(app_data_dir, f), current_utc)
        status == o.result
    IN  [file |-> IF app_data_dir = get_app_data_dir THEN o.file ELSE f,
         status |-> status,
         io |-> o.io,
         branch |-> IF ~ status.is_pro
                    THEN IF status.time_tamper_detected
                         THEN "time_tamper" ELSE "not_pro"
                    ELSE "sync_bidirectional"]

AutoSyncToDrive ==
    /\ pc = "idle"
    /\ LET o == auto_sync_to_drive(file, clock)
       IN  /\ file' = o.file
           /\ last' = Done("auto_sync_to_drive", <<>>, o.branch, o.status,
                           o.io)
    /\ pc' = "returned"
    /\ suspect' = <<>>
    /\ UNCHANGED <<clock, inflight, server, cancelled, history>>
    /\ UNCHANGED store_vars

NextSync == Calls \/ ClockForward \/ AutoSyncToDrive

SpecSync == Init /\ [][NextSync]_vars

---------------------------------------------------------------------------
(* DeviceIdGenerator::generate, called by two commands at once.  The       *)
(* contents of .device_uuid are a sequence of characters, a UUID being one *)
(* of them; uuid_file is <<>> while the file does not exist.               *)

Uuids == {"uuid_1", "uuid_2"}

(* machine_uid::get(): the raw platform identifier, or an error. *)
MachineUidAnswers ==
    {[ok |-> TRUE, raw_id |-> "machine_1"], [ok |-> FALSE, raw_id |-> ""]}

RECURSIVE trim_start(_)
trim_start(s) ==
    IF s # <<>> /\ Head(s) \in {" ", "\n"} THEN trim_start(Tail(s)) ELSE s

RECURSIVE trim_end(_)
trim_end(s) ==
    IF s # <<>> /\ s[Len(s)] \in {" ", "\n"}
    THEN trim_end(SubSeq(s, 1, Len(s) - 1))
    ELSE s

(* str::trim *)
trim(s) == trim_end(trim_start(s))

(* hex::encode(Sha256(raw_id)) *)
sha256_hex(raw_id) == <<"sha256", raw_id>>

(* generate up to the exists() test of get_or_create_fallback_id, with the *)
(* UUID that Uuid::new_v4 will draw; the answer is the caller afterwards,  *)
(* [pc, locals, last].                                                     *)
generate_begin(answer, f, new_uuid) ==
    IF answer.ok
    THEN [pc |-> "returned", locals |-> <<>>,
          last |-> Done("generate", answer, "machine_uid",
                        sha256_hex(answer.raw_id), "none")]
    ELSE IF f # <<>>
         THEN [pc |-> "read_to_string", locals |-> <<>>, last |-> NoCall]
         ELSE [pc |-> "create", locals |-> Some(new_uuid), last |-> NoCall]

(* read_to_string and trim: the file exists from here on, nothing removes  *)
(* it.                                                                     *)
generate_read(f) ==
    [pc |-> "returned", locals |-> <<>>,
     last |-> Done("generate", <<>>, "read", trim(f[1]), "none")]

GenerateBegin(answer, new_uuid) ==
    /\ pc = "idle"
    /\ LET c == generate_begin(answer, uuid_file, new_uuid)
       IN  /\ pc' = c.pc
           /\ inflight' = c.locals
           /\ last' = c.last
    /\ UNCHANGED <<file, clock, suspect, server, cancelled, cred_file,
                   device, keyring, history, bg, uuid_file>>

GenerateRead ==
    /\ pc = "read_to_string"
    /\ LET c == generate_read(uuid_file)
       IN  /\ pc' = c.pc
           /\ inflight' = c.locals
           /\ last' = c.last
    /\ UNCHANGED <<file, clock, suspect, server, cancelled, cred_file,
                   device, keyring, history, bg, uuid_file>>

(* std::fs::write opens the file with truncation ... *)
GenerateCreate ==
    /\ pc = "create"
    /\ uuid_file' = Some(<<>>)
    /\ pc' = "write_all"
    /\ UNCHANGED <<file, clock, inflight, last, suspect, server, cancelled,
                   cred_file, device, keyring, history, bg>>

(* ... and then writes the contents; generate returns the new UUID. *)
GenerateWriteAll ==
    /\ pc = "write_all"
    /\ uuid_file' = Some(<<inflight[1]>>)
    /\ pc' = "returned"
    /\ inflight' = <<>>
    /\ last' = Done("generate", <<>>, "created", <<inflight[1]>>, "write")
    /\ UNCHANGED <<file, clock, suspect, server, cancelled, cred_file,
                   device, keyring, history, bg>>

BgGenerateBegin(answer, new_uuid) ==
    /\ bg.pc = "idle"
    /\ bg' = generate_begin(answer, uuid_file, new_uuid)
    /\ UNCHANGED <<file, uuid_file>>
    /\ UNCHANGED <<clock, pc, inflight, last, suspect, server, cancelled,
                   cred_file, device, keyring, history>>

BgGenerateRead ==
    /\ bg.pc = "read_to_string"
    /\ bg' = generate_read(uuid_file)
    /\ UNCHANGED <<file, uuid_file>>
    /\ UNCHANGED <<clock, pc, inflight, last, suspect, server, cancelled,
                   cred_file, device, keyring, history>>

BgGenerateCreate ==
    /\ bg.pc = "create"
    /\ uuid_file' = Some(<<>>)
    /\ bg' = [bg EXCEPT !.pc = "write_all"]
    /\ UNCHANGED <<file, clock, pc, inflight, last, suspect, server,
                   cancelled, cred_file, device, keyring, history>>

BgGenerateWriteAll ==
    /\ bg.pc = "write_all"
    /\ uuid_file' = Some(<<bg.locals[1]>>)
    /\ bg' = [pc |-> "returned", locals |-> <<>>,
              last |-> Done("generate", <<>>, "created", <<bg.locals[1]>>,
                            "write")]
    /\ UNCHANGED <<file, clock, pc, inflight, last, suspect, server,
                   cancelled, cred_file, device, keyring, history>>

BgGenerateReturn ==
    /\ bg.pc = "returned"
    /\ bg' = NoCaller
    /\ UNCHANGED <<file, uuid_file>>
    /\ UNCHANGED <<clock, pc, inflight, last, suspect, server, cancelled,
                   cred_file, device, keyring, history>>

InitDeviceId ==
    /\ Init
    /\ clock = 0

NextDeviceId ==
    \/ \E answer \in MachineUidAnswers, new_uuid \in Uuids :
           GenerateBegin(answer, new_uuid)
    \/ GenerateRead
    \/ GenerateCreate
    \/ GenerateWriteAll
    \/ Return
    \/ \E answer \in MachineUidAnswers, new_uuid \in Uuids :
           BgGenerateBegin(answer, new_uuid)
    \/ BgGenerateRead
    \/ BgGenerateCreate
    \/ BgGenerateWriteAll
    \/ BgGenerateReturn

SpecDeviceId == InitDeviceId /\ [][NextDeviceId]_vars

---------------------------------------------------------------------------
(* Two callers at once: the tauri commands are async and nothing           *)
(* serializes them.  The second caller runs get_license_status, which can  *)
(* be preempted between its load and its save, or                          *)
(* validate_license_background, beside the first caller's activate and     *)
(* deactivate.                                                             *)

(* What the second caller's steps leave alone. *)
first_caller_vars ==
    <<clock, pc, inflight, last, suspect, server, cancelled, cred_file,
      device, keyring, history, uuid_file>>

(* get_status, lines 189-194: the file is read and the clock taken. *)
BgGetStatusLoad ==
    /\ bg.pc = "idle"
    /\ bg' = [pc |-> "get_status",
              locals |-> [file |-> file, current_utc |-> clock],
              last |-> NoCall]
    /\ UNCHANGED file
    /\ UNCHANGED first_caller_vars

(* get_status, lines 198-233: the record that was read is saved with the   *)
(* new watermark, unless the read was tamper-suspect or failed.            *)
BgGetStatusSave ==
    /\ bg.pc = "get_status"
    /\ LET o == get_status(bg.locals.file, bg.locals.current_utc)
       IN  /\ file' = IF o.io = "save" THEN o.file ELSE file
           /\ bg' = [pc |-> "returned", locals |-> <<>>,
                     last |-> Done("get_status", <<>>, o.branch, o.result,
                                   o.io)]
    /\ UNCHANGED first_caller_vars

BgValidateBegin ==
    /\ bg.pc = "idle"
    /\ LET b == validate_begin(file, clock)
       IN  bg' = IF b.early
                 THEN [pc |-> "returned", locals |-> <<>>,
                       last |-> Done("validate_background", <<>>, b.branch,
                                     b.result, "none")]
                 ELSE [pc |-> "validate", locals |-> b, last |-> NoCall]
    /\ UNCHANGED file
    /\ UNCHANGED first_caller_vars

BgValidateFinish(response) ==
    /\ bg.pc = "validate"
    /\ LET o == validate_finish(bg.locals, file, response, clock)
       IN  /\ file' = o.file
           /\ bg' = [pc |-> "returned", locals |-> <<>>,
                     last |-> Done("validate_background", response, o.branch,
                                   o.result, o.io)]
    /\ UNCHANGED first_caller_vars

(* The second caller takes the value its call returned. *)
BgReturn ==
    /\ bg.pc = "returned"
    /\ bg' = NoCaller
    /\ UNCHANGED file
    /\ UNCHANGED first_caller_vars

NextConcurrent ==
    \/ EnsureTrialInitialized
    \/ \E k \in LicenseKeys : ActivateBegin(k)
    \/ \E r \in ActivateResponses : ActivateFinish(r)
    \/ DeactivateBegin
    \/ \E r \in PlainResponses : DeactivateFinish(r)
    \/ Return
    \/ ClockForward
    \/ BgGetStatusLoad
    \/ BgGetStatusSave
    \/ BgValidateBegin
    \/ \E r \in PlainResponses : BgValidateFinish(r)
    \/ BgReturn

SpecConcurrent == Init /\ [][NextConcurrent]_vars

---------------------------------------------------------------------------
(* The license manager over a .license.dat that something else has         *)
(* written, cut short or altered between two calls.                        *)

(* Files the manager did not write: the file of another device; a sealed   *)
(* text that is not a LicenseData; a record signed for another device and  *)
(* sealed under this device's key.                                         *)
ForeignFiles ==
    { Sealed(derive_encryption_key(OtherDevice(DeviceId)),
             to_string(new_trial(OtherDevice(DeviceId), 0)), "whole"),
      Sealed(derive_encryption_key(DeviceId),
             [device_id |-> DeviceId], "whole"),
      Sealed(derive_encryption_key(DeviceId),
             to_string(new_trial(OtherDevice(DeviceId), 0)), "whole") }

ForeignLicenseFile(f) ==
    /\ pc = "idle"
    /\ file # Some(f)
    /\ file' = Some(f)
    /\ UNCHANGED <<cred_file, device, pc, inflight, last>>
    /\ UNCHANGED manager_vars

(* The file is cut short: to fewer than 12 bytes, or somewhere after. *)
DamageLicenseFile(bytes) ==
    /\ pc = "idle"
    /\ file # <<>>
    /\ file[1].bytes = "whole"
    /\ file' = Some([file[1] EXCEPT !.bytes = bytes])
    /\ UNCHANGED <<cred_file, device, pc, inflight, last>>
    /\ UNCHANGED manager_vars

NextCorrupt ==
    \/ Calls
    \/ ClockForward
    \/ \E f \in ForeignFiles : ForeignLicenseFile(f)
    \/ \E bytes \in {"none", "part"} : DamageLicenseFile(bytes)
    \/ \E field \in {"trial_used", "device_id"} :
          \E value \in LicenseFieldValues(field) : TamperLicense(field, value)

SpecCorrupt == Init /\ [][NextCorrupt]_vars

---------------------------------------------------------------------------
(* The credential commands: the sealed credential file, the legacy keyring *)
(* entry and the OAuth refresh endpoint.                                   *)

(* How std::fs::write inside CredentialStore::save can end: every byte     *)
(* written; refused before the file is created; failed after File::create *)
(* has created or truncated it.                                            *)
SaveOutcomes == { "written", "refused", "torn" }

(* CredentialStore::save with its Result. *)
cred_save_result(device_id, c, f, outcome) ==
    IF outcome = "written"
    THEN [result |-> Ok(<<>>), file |-> cred_save(device_id, c)]
    ELSE IF outcome = "refused"
    THEN [result |-> Err("StorageError"), file |-> f]
    ELSE [result |-> Err("StorageError"),
          file |-> Some(Sealed(cred_derive_encryption_key(device_id),
                               cred_to_string(c), "none"))]

(* CredentialStore::exists *)
cred_exists(f) == f # <<>>

(* What an earlier version of the application left in the keyring. *)
KeyringTokens ==
    { [access_token |-> "a", refresh_token |-> "c", expires_at |-> 300,
       user_email |-> Some("e@x"), folder_id |-> None],
      [access_token |-> "a:b", refresh_token |-> "c", expires_at |-> 301,
       user_email |-> None, folder_id |-> Some("f")] }

(* How the keyring answers get_tokens and clear_tokens. *)
KeyringAnswers == { "ok", "error" }

(* Variant: the keyring entry is cleared before the sealed file is saved. *)
migrate_from_keyring_clear_first(device_id, f, kr, read, outcome, clear) ==
    IF cred_exists(f)
    THEN [result |-> "NotNeeded", file |-> f, keyring |-> kr, io |-> <<>>]
    ELSE IF read = "error" \/ kr = <<>>
    THEN [result |-> "NotNeeded", file |-> f, keyring |-> kr,
          io |-> <<"get_tokens">>]
    ELSE LET new_creds == cred_new(device_id, kr[1].access_token,
                                   kr[1].refresh_token, kr[1].expires_at,
                                   kr[1].user_email, kr[1].folder_id)
             cleared == IF clear = "ok" THEN <<>> ELSE kr
             s == cred_save_result(device_id, new_creds, f, outcome)
         IN  IF s.result.tag = "Err"
             THEN [result |-> "Failed", file |-> s.file, keyring |-> cleared,
                   io |-> <<"get_tokens", "clear_tokens", "save">>]
             ELSE [result |-> "Migrated", file |-> s.file,
                   keyring |-> cleared,
                   io |-> <<"get_tokens", "clear_tokens", "save">>]

(* migration.rs, migrate_from_keyring: the MigrationResult, the file and   *)
(* the keyring entry it leaves, and the calls it made in order.            *)
migrate_from_keyring(device_id, f, kr, read, outcome, clear) ==
    IF cred_exists(f)
    THEN [result |-> "NotNeeded", file |-> f, keyring |-> kr, io |-> <<>>]
    ELSE IF read = "error" \/ kr = <<>>
    THEN [result |-> "NotNeeded", file |-> f, keyring |-> kr,
          io |-> <<"get_tokens">>]
    ELSE LET new_creds == cred_new(device_id, kr[1].access_token,
                                   kr[1].refresh_token, kr[1].expires_at,
                                   kr[1].user_email, kr[1].folder_id)
             s == cred_save_result(device_id, new_creds, f, outcome)
         IN  IF s.result.tag = "Err"
             THEN [result |-> "Failed", file |-> s.file, keyring |-> kr,
                   io |-> <<"get_tokens", "save">>]
             ELSE [result |-> "Migrated", file |-> s.file,
                   keyring |-> IF clear = "ok" THEN <<>> ELSE kr,
                   io |-> <<"get_tokens", "save", "clear_tokens">>]

(* credentials/commands.rs, migrate_credentials: the value the command     *)
(* returns for a MigrationResult.                                          *)
migrate_credentials(m) ==
    IF m = "Migrated" THEN Ok("migrated")
    ELSE IF m = "NotNeeded" THEN Ok("not_needed")
    ELSE Err("StorageError")

(* What the refresh endpoint can answer. *)
RefreshResponses ==
    { Ok([access_token |-> "n", expires_in |-> 3600]), Err("network") }

(* get_valid_credentials up to the await on oauth.refresh_token: the value *)
(* returned if it returns here, the file load leaves, and the refresh      *)
(* request if one is sent.                                                 *)
get_valid_credentials_begin(device_id, f, utc_now) ==
    LET r == cred_load(device_id, f)
    IN  IF r.result.tag = "Err"
        THEN [returns |-> Some(Err(r.result.error)), file |-> r.file,
              request |-> None]
        ELSE IF ~ cred_is_token_expiring(r.result.value, utc_now)
        THEN [returns |-> Some(Ok(r.result.value)), file |-> r.file,
              request |-> None]
        ELSE [returns |-> None, file |-> r.file,
              request |-> Some([creds |-> r.result.value,
                                refresh_token |->
                                    r.result.value.refresh_token])]

(* get_valid_credentials from the answer of the refresh endpoint on. *)
get_valid_credentials_finish(device_id, f, creds, response, utc_now, outcome) ==
    IF response.tag = "Ok"
    THEN LET new_expires_at == utc_now + response.value.expires_in
             updated == cred_update_access_token(
                            creds, response.value.access_token,
                            new_expires_at)
         IN  [result |-> Ok(updated),
              file |-> cred_save_result(device_id, updated, f, outcome).file,
              branch |-> "refreshed"]
    ELSE [result |-> Ok(creds), file |-> f, branch |-> "refresh_failed"]

(* What store_credentials is called with after sign-in. *)
SignedIn(device_id) ==
    { cred_new(device_id, "a", "c", e, Some("e@x"), None) :
        e \in ExpiresAts }

InitCredentials ==
    /\ file = <<>>
    /\ cred_file = <<>>
    /\ device = DeviceId
    /\ keyring \in {None} \cup { Some(t) : t \in KeyringTokens }
    /\ history = NoHistory
    /\ bg = NoCaller
    /\ uuid_file = <<>>
    /\ clock \in {0, 1}
    /\ pc = "idle"
    /\ inflight = <<>>
    /\ last = NoCall
    /\ suspect = <<>>
    /\ server = Untracked
    /\ cancelled = "none"

(* What the credential commands leave alone. *)
license_vars ==
    <<file, suspect, server, cancelled, history, bg, uuid_file>>

(* commands.rs, store_credentials *)
StoreCredentials(c, outcome) ==
    /\ pc = "idle"
    /\ LET s == cred_save_result(device, c, cred_file, outcome)
       IN  /\ cred_file' = s.file
           /\ last' = Done("store_credentials", c, outcome, s.result, "save")
    /\ pc' = "returned"
    /\ UNCHANGED <<device, keyring, clock, inflight>>
    /\ UNCHANGED license_vars

(* commands.rs, clear_credentials *)
ClearCredentials ==
    /\ pc = "idle"
    /\ cred_file' = cred_delete(cred_file)
    /\ last' = Done("clear_credentials", <<>>, "deleted", Ok(<<>>), "delete")
    /\ pc' = "returned"
    /\ UNCHANGED <<device, keyring, clock, inflight>>
    /\ UNCHANGED license_vars

(* commands.rs, migrate_credentials *)
MigrateCredentials(read, outcome, clear) ==
    /\ pc = "idle"
    /\ LET m == migrate_from_keyring(device, cred_file, keyring, read,
                                     outcome, clear)
       IN  /\ cred_file' = m.file
           /\ keyring' = m.keyring
           /\ last' = Done("migrate_credentials",
                           [read |-> read, save |-> outcome, clear |-> clear],
                           m.result, migrate_credentials(m.result), m.io)
    /\ pc' = "returned"
    /\ UNCHANGED <<device, clock, inflight>>
    /\ UNCHANGED license_vars

GetValidCredentialsBegin ==
    /\ pc = "idle"
    /\ LET b == get_valid_credentials_begin(device, cred_file, clock)
       IN  /\ cred_file' = b.file
           /\ IF is_some(b.returns)
              THEN /\ last' = Done("get_valid_credentials", <<>>,
                                   IF b.returns[1].tag = "Ok" THEN "fresh"
                                   ELSE "load_failed",
                                   b.returns[1], "none")
                   /\ pc' = "returned"
                   /\ inflight' = <<>>
              ELSE /\ pc' = "refreshing"
                   /\ inflight' = b.request
                   /\ UNCHANGED last
    /\ UNCHANGED <<device, keyring, clock>>
    /\ UNCHANGED license_vars

GetValidCredentialsFinish(response, outcome) ==
    /\ pc = "refreshing"
    /\ LET o == get_valid_credentials_finish(device, cred_file,
                                             inflight[1].creds, response,
                                             clock, outcome)
       IN  /\ cred_file' = o.file
           /\ last' = Done("get_valid_credentials",
                           [response |-> response, save |-> outcome],
                           o.branch, o.result, "refresh")
    /\ pc' = "returned"
    /\ inflight' = <<>>
    /\ UNCHANGED <<device, keyring, clock>>
    /\ UNCHANGED license_vars

NextCredentials ==
    \/ \E c \in SignedIn(device) :
         \E outcome \in SaveOutcomes : StoreCredentials(c, outcome)
    \/ ClearCredentials
    \/ \E read \in KeyringAnswers, clear \in KeyringAnswers :
         \E outcome \in SaveOutcomes : MigrateCredentials(read, outcome, clear)
    \/ GetValidCredentialsBegin
    \/ \E response \in RefreshResponses :
         \E outcome \in SaveOutcomes :
            GetValidCredentialsFinish(response, outcome)
    \/ ClockForward
    \/ DeviceChange
    \/ Return

SpecCredentials == InitCredentials /\ [][NextCredentials]_vars

---------------------------------------------------------------------------
(* Properties *)

(* The step completes a call of op. *)
Completes(op) == pc # "returned" /\ pc' = "returned" /\ last'.op = op

(* The record in file f; used where f holds one. *)
Record(f) == from_slice(f[1].plaintext)

Loads(f) == load(DeviceId, f).tag = "Ok"

(* C1: get_status on a record that loads returns is_pro = true exactly     *)
(* when now >= last_seen_utc_time and either the trial is started, no      *)
(* license key is present and now < trial_started_at + 604800, or a        *)
(* license key is present and now - last_validated_at <= 604800.           *)
C1_Entitled(d, now) ==
    /\ now >= d.last_seen_utc_time
    /\ \/ /\ d.trial_started_at # None
          /\ d.license_key = None
          /\ now < d.trial_started_at[1] + 604800
       \/ /\ d.license_key # None
          /\ now - d.last_validated_at[1] <= 604800

C1_IsProExactlyWhenEntitled ==
    [][ (Completes("get_status") /\ Loads(file))
        => (last'.result.is_pro <=> C1_Entitled(Record(file), clock)) ]_vars

(* A licensed record read on the last second of its grace period is PRO. *)
C1_Witness ==
    /\ pc = "returned" /\ last.op = "get_status" /\ Loads(file)
    /\ last.result.is_pro
    /\ Record(file).license_key # None
    /\ clock - Record(file).last_validated_at[1] = 604800

(* C2: a get_status made while now < last_seen_utc_time of the stored      *)
(* record reports time_tamper_detected = true, is_pro = false and          *)
(* is_trial = false, whatever the trial and license fields are.            *)
C2_TamperSuppressesPro ==
    [][ (Completes("get_status") /\ Loads(file)
         /\ clock < Record(file).last_seen_utc_time)
        => /\ last'.result.time_tamper_detected
           /\ ~ last'.result.is_pro
           /\ ~ last'.result.is_trial ]_vars

(* A tamper-suspect read of a record whose trial is otherwise running. *)
C2_Witness ==
    /\ pc = "returned" /\ last.op = "get_status" /\ Loads(file)
    /\ clock < Record(file).last_seen_utc_time
    /\ last.result.time_tamper_detected
    /\ Record(file).license_key = None
    /\ Record(file).trial_started_at # None
    /\ clock < Record(file).trial_started_at[1] + 604800

(* C3: the stored last_seen_utc_time never decreases: after any write of   *)
(* the manager, under any clock behaviour, it is >= its value before.      *)
C3_WatermarkNeverDecreases ==
    [][ (file # <<>> /\ file' # <<>>)
        => Record(file').last_seen_utc_time
               >= Record(file).last_seen_utc_time ]_vars

(* C4: a get_status made while now < last_seen_utc_time performs no        *)
(* write: the file is identical before and after the call.                 *)
C4_TamperReadWritesNothing ==
    [][ (Completes("get_status") /\ Loads(file)
         /\ clock < Record(file).last_seen_utc_time)
        => (file' = file /\ last'.io = "none") ]_vars

C4_Witness ==
    /\ pc = "returned" /\ last.op = "get_status" /\ Loads(file)
    /\ clock < Record(file).last_seen_utc_time
    /\ last.io = "none"

(* C5: under a clock that never moves backward the stored                  *)
(* last_seen_utc_time never decreases, and after each get_status of a      *)
(* record it equals the clock value at that call, under a signature that   *)
(* verifies.                                                               *)
C5_ForwardClockWatermark ==
    [][ /\ (file # <<>> /\ file' # <<>>)
           => Record(file').last_seen_utc_time
                  >= Record(file).last_seen_utc_time
        /\ (Completes("get_status") /\ Loads(file))
           => /\ file' # <<>>
              /\ Record(file').last_seen_utc_time = clock
              /\ verify_signature(Record(file'))
              /\ Loads(file') ]_vars

(* A read that moved the watermark past the start of the trial. *)
C5_Witness ==
    /\ pc = "returned" /\ last.op = "get_status" /\ Loads(file)
    /\ last.io = "save"
    /\ Record(file).last_seen_utc_time = clock
    /\ Record(file).trial_started_at # None
    /\ Record(file).trial_started_at[1] < clock

(* C6: after tamper-suspect reads (the clock below the watermark), the     *)
(* first get_status made with the clock at or above the watermark reports  *)
(* time_tamper_detected = false and the is_pro the record has at that      *)
(* time, and writes last_seen_utc_time = that clock value; the tamper      *)
(* reads in between have not altered the record.                           *)
C6_SelfHealing ==
    [][ (Completes("get_status") /\ suspect # <<>>
         /\ clock >= Record(suspect).last_seen_utc_time)
        => /\ file = suspect
           /\ ~ last'.result.time_tamper_detected
           /\ last'.result.is_pro <=> C1_Entitled(Record(suspect), clock)
           /\ file' # <<>>
           /\ Record(file') =
                  [Record(suspect) EXCEPT
                      !.last_seen_utc_time = clock,
                      !.signature = Record(file').signature]
           /\ verify_signature(Record(file')) ]_vars

(* A healed read that grants PRO again, the clock now past the watermark. *)
C6_Witness ==
    /\ pc = "returned" /\ last.op = "get_status" /\ last.branch = "healed"
    /\ suspect # <<>>
    /\ clock > Record(suspect).last_seen_utc_time
    /\ last.result.is_pro
    /\ ~ last.result.time_tamper_detected

(* C7: get_status of a licensed record, d = now - last_validated_at:       *)
(* d = 259200 is fresh (no validation needed, not in grace, valid);        *)
(* d = 259201 needs validation and is in grace, which ends at              *)
(* last_validated_at + 604800, and valid; d = 604800 is valid and in       *)
(* grace; d = 604801 is not in grace and not valid.  The license being     *)
(* valid shows as is_pro when the clock is not behind the watermark.       *)
C7_GraceBoundaries ==
    [][ (Completes("get_status") /\ Loads(file)
         /\ Record(file).license_key # None)
        => LET lv == Record(file).last_validated_at[1]
               d == clock - lv
               sane == clock >= Record(file).last_seen_utc_time
               st == last'.result
           IN  /\ d = 259200
                  => /\ ~ st.needs_validation
                     /\ ~ st.in_grace_period
                     /\ sane => st.is_pro
               /\ d = 259201
                  => /\ st.needs_validation
                     /\ st.in_grace_period
                     /\ st.grace_period_ends_at = Some(lv + 604800)
                     /\ sane => st.is_pro
               /\ d = 604800
                  => /\ st.in_grace_period
                     /\ sane => st.is_pro
               /\ d = 604801
                  => /\ ~ st.in_grace_period
                     /\ ~ st.is_pro ]_vars

(* The first second of the grace period. *)
C7_Witness ==
    /\ pc = "returned" /\ last.op = "get_status" /\ Loads(file)
    /\ Record(file).license_key # None
    /\ clock - Record(file).last_validated_at[1] = 259201
    /\ last.result.in_grace_period
    /\ last.result.is_pro

(* The other three boundaries of C7 are reached as well. *)
C7_ReachedFresh ==
    /\ pc = "returned" /\ last.op = "get_status" /\ Loads(file)
    /\ Record(file).license_key # None
    /\ clock - Record(file).last_validated_at[1] = 259200
    /\ last.result.is_pro

C7_ReachedLastGrace ==
    /\ pc = "returned" /\ last.op = "get_status" /\ Loads(file)
    /\ Record(file).license_key # None
    /\ clock - Record(file).last_validated_at[1] = 604800
    /\ last.result.is_pro

C7_ReachedLapsed ==
    /\ pc = "returned" /\ last.op = "get_status" /\ Loads(file)
    /\ Record(file).license_key # None
    /\ clock - Record(file).last_validated_at[1] = 604801
    /\ ~ last.result.is_pro /\ ~ last.result.time_tamper_detected

(* C8: when validate_background runs on a licensed record and the server   *)
(* answers success = false, the saved record has no license_key,           *)
(* activated_at or last_validated_at, its trial_started_at and trial_used  *)
(* are what they were, its signature verifies and the result is            *)
(* {success: false, downgraded: true, in_grace_period: false}.             *)
C8_ServerDowngradeKeepsTrial ==
    [][ (pc = "validate" /\ Completes("validate_background")
         /\ last'.input.tag = "Ok" /\ ~ last'.input.value.success)
        => /\ file # <<>> /\ file' # <<>>
           /\ Record(file').license_key = None
           /\ Record(file').activated_at = None
           /\ Record(file').last_validated_at = None
           /\ Record(file').trial_started_at = Record(file).trial_started_at
           /\ Record(file').trial_used = Record(file).trial_used
           /\ verify_signature(Record(file'))
           /\ last'.result.tag = "Ok"
           /\ last'.result.value =
                  [success |-> FALSE, downgraded |-> TRUE,
                   in_grace_period |-> FALSE] ]_vars

(* A downgrade by the server that leaves a trial that is still running. *)
C8_Witness ==
    /\ pc = "returned" /\ last.op = "validate_background"
    /\ last.input # <<>> /\ last.input.tag = "Ok"
    /\ ~ last.input.value.success
    /\ last.result.value.downgraded
    /\ file # <<>>
    /\ Record(file).license_key = None
    /\ Record(file).trial_started_at # None
    /\ clock < Record(file).trial_started_at[1] + 604800

(* C9, as claimed: when validate_background runs on a licensed record at   *)
(* clock value now, the server call fails with a network error, now is     *)
(* not behind the watermark and now - last_validated_at <= 604800, the     *)
(* result is {success: false, downgraded: false, in_grace_period: true}    *)
(* and the record on disk changes in last_seen_utc_time, set to now, and   *)
(* signature only.                                                         *)
C9_OfflineGraceStampsNow ==
    [][ (pc = "validate" /\ Completes("validate_background")
         /\ last'.input.tag = "Err"
         /\ inflight[1].current_utc >= Record(file).last_seen_utc_time
         /\ inflight[1].current_utc - Record(file).last_validated_at[1]
                <= 604800)
        => /\ last'.result.tag = "Ok"
           /\ last'.result.value =
                  [success |-> FALSE, downgraded |-> FALSE,
                   in_grace_period |-> TRUE]
           /\ file' # <<>>
           /\ Record(file') =
                  [Record(file) EXCEPT
                      !.last_seen_utc_time = inflight[1].current_utc,
                      !.signature = Record(file').signature]
           /\ verify_signature(Record(file')) ]_vars

(* C9, amended: the tamper and grace tests use the clock value read at     *)
(* the start of the call; last_seen_utc_time is set to the clock value     *)
(* read when the record is saved, after the server call has failed.        *)
C9_OfflineGraceStampsSaveTime ==
    [][ (pc = "validate" /\ Completes("validate_background")
         /\ last'.input.tag = "Err"
         /\ inflight[1].current_utc >= Record(file).last_seen_utc_time
         /\ inflight[1].current_utc - Record(file).last_validated_at[1]
                <= 604800)
        => /\ last'.result.tag = "Ok"
           /\ last'.result.value =
                  [success |-> FALSE, downgraded |-> FALSE,
                   in_grace_period |-> TRUE]
           /\ file' # <<>>
           /\ Record(file') =
                  [Record(file) EXCEPT
                      !.last_seen_utc_time = clock,
                      !.signature = Record(file').signature]
           /\ verify_signature(Record(file')) ]_vars

(* An offline validation in the grace period that moved the watermark. *)
C9_Witness ==
    /\ pc = "returned" /\ last.op = "validate_background"
    /\ last.input # <<>> /\ last.input.tag = "Err"
    /\ last.result.value.in_grace_period
    /\ file # <<>>
    /\ Record(file).license_key # None
    /\ clock - Record(file).last_validated_at[1] > 259200
    /\ Record(file).last_seen_utc_time = clock

(* C10: when validate_background runs on a licensed record, the server     *)
(* call fails with a network error and the clock read at the start of the  *)
(* call is behind the stored watermark, the result is all-false and the    *)
(* record on disk is not changed at all.                                   *)
C10_OfflineTamperChangesNothing ==
    [][ (pc = "validate" /\ Completes("validate_background")
         /\ last'.input.tag = "Err"
         /\ inflight[1].current_utc < Record(file).last_seen_utc_time)
        => /\ last'.result.tag = "Ok"
           /\ last'.result.value =
                  [success |-> FALSE, downgraded |-> FALSE,
                   in_grace_period |-> FALSE]
           /\ file' = file
           /\ last'.io = "none" ]_vars

(* No downgrade although the grace period is exceeded at the rewound clock. *)
C10_Witness ==
    /\ pc = "returned" /\ last.op = "validate_background"
    /\ last.input # <<>> /\ last.input.tag = "Err"
    /\ last.result.value =
           [success |-> FALSE, downgraded |-> FALSE,
            in_grace_period |-> FALSE]
    /\ file # <<>>
    /\ Record(file).license_key # None
    /\ clock < Record(file).last_seen_utc_time
    /\ clock - Record(file).last_validated_at[1] > 604800

---------------------------------------------------------------------------
(* C11.  Grace expiry downgrade.  validate_background on a licensed record *)
(* gets a network error; the clock it read was not behind the watermark    *)
(* and was more than 604800 s after last_validated_at.  Then the license   *)
(* fields are cleared and the record saved, trial_used stays true, the     *)
(* result has downgraded = true, and a get_status at that same clock value *)
(* reports is_pro = false.                                                 *)

C11_Lapsed ==
    /\ pc = "validate"
    /\ Completes("validate_background")
    /\ last'.input.tag = "Err"
    /\ inflight[1].current_utc >= inflight[1].data.last_seen_utc_time
    /\ inflight[1].current_utc
         - unwrap_or(inflight[1].data.last_validated_at, 0) > 604800

C11_Downgraded ==
    /\ Loads(file')
    /\ last'.io = "save"
    /\ is_none(Record(file').license_key)
    /\ is_none(Record(file').activated_at)
    /\ is_none(Record(file').last_validated_at)
    /\ Record(file').trial_started_at = inflight[1].data.trial_started_at
    /\ Record(file').trial_used
    /\ last'.result = Ok(ValidationResult(FALSE, TRUE, FALSE))

(* C11 as stated: every record that was upgraded from a trial (a licensed  *)
(* record holds a trial start only if the trial was started before the     *)
(* activation) reports is_pro = false after the downgrade.                 *)
C11_GraceExpiryDowngrade ==
    [][ C11_Lapsed =>
          /\ C11_Downgraded
          /\ ~ get_status(file', inflight[1].current_utc).result.is_pro ]_vars

(* C11, amended: is_pro = false after the downgrade for a record whose     *)
(* trial was started at a clock value not later than last_validated_at;    *)
(* a trial stamped later than the last validation can still be running.    *)
C11_GraceExpiryDowngradeAfterTrial ==
    [][ C11_Lapsed =>
          /\ C11_Downgraded
          /\ (unwrap_or(inflight[1].data.trial_started_at, 0)
                <= unwrap_or(inflight[1].data.last_validated_at, 0))
             => ~ get_status(file', inflight[1].current_utc).result.is_pro
      ]_vars

C11_Witness ==
    /\ pc = "returned"
    /\ last.op = "validate_background"
    /\ last.input = NetworkError
    /\ last.result = Ok(ValidationResult(FALSE, TRUE, FALSE))
    /\ Loads(file)
    /\ is_some(Record(file).trial_started_at)
    /\ Record(file).trial_used
    /\ is_none(Record(file).license_key)
    /\ clock >= Record(file).last_seen_utc_time
    /\ ~ get_status(file, clock).result.is_pro

---------------------------------------------------------------------------
(* C12.  Successful online validation.  validate_background on a licensed  *)
(* record, whatever its age, gets success = true from the server: the      *)
(* saved record has last_validated_at = the clock at the save, the license *)
(* key and activated_at are unchanged, the result is {success: true,       *)
(* downgraded: false, in_grace_period: false}, and a get_status right      *)
(* after reports needs_validation = false and in_grace_period = false.     *)

C12_OnlineValidationRefreshes ==
    [][ ( /\ pc = "validate"
          /\ Completes("validate_background")
          /\ last'.input.tag = "Ok"
          /\ last'.input.value.success )
        =>
        ( /\ Loads(file')
          /\ last'.io = "save"
          /\ Record(file').last_validated_at = Some(clock)
          /\ Record(file').license_key = inflight[1].data.license_key
          /\ Record(file').activated_at = inflight[1].data.activated_at
          /\ last'.result = Ok(ValidationResult(TRUE, FALSE, FALSE))
          /\ ~ get_status(file', clock).result.needs_validation
          /\ ~ get_status(file', clock).result.in_grace_period
          /\ get_status(file', clock).result.last_validated_at = Some(clock) )
      ]_vars

(* A validation that succeeded more than the grace period after the        *)
(* activation. *)
C12_Witness ==
    /\ pc = "returned"
    /\ last.op = "validate_background"
    /\ last.result = Ok(ValidationResult(TRUE, FALSE, FALSE))
    /\ Loads(file)
    /\ is_some(Record(file).license_key)
    /\ Record(file).last_validated_at = Some(clock)
    /\ clock - Record(file).activated_at[1] > GRACE_PERIOD_SECS

---------------------------------------------------------------------------
(* C13.  In every record on disk the license key, activated_at and         *)
(* last_validated_at are present together or absent together.              *)

C13_LicenseFieldsTogether ==
    file # <<>> =>
        /\ is_some(Record(file).license_key) <=> is_some(Record(file).activated_at)
        /\ is_some(Record(file).license_key)
             <=> is_some(Record(file).last_validated_at)

(* A record that held a license and was downgraded. *)
C13_Witness ==
    /\ pc = "returned"
    /\ last.op = "validate_background"
    /\ last.result = Ok(ValidationResult(FALSE, TRUE, FALSE))
    /\ file # <<>>
    /\ is_none(Record(file).license_key)
    /\ is_none(Record(file).activated_at)
    /\ is_none(Record(file).last_validated_at)
    /\ Record(file).trial_used

---------------------------------------------------------------------------
(* C14.  A successful activation leaves trial_used = true, and no later    *)
(* step that keeps the record on disk (validate_background, a downgrade,   *)
(* get_status, ensure_trial_initialized, another activate) makes it false. *)

C14_TrialUsedSticks ==
    [][ /\ ( /\ Completes("activate")
             /\ last'.result.tag = "Ok"
             /\ last'.result.value.success )
           => (Loads(file') /\ Record(file').trial_used)
        /\ (file # <<>> /\ file' # <<>> /\ Record(file).trial_used)
           => Record(file').trial_used ]_vars

(* ensure_trial_initialized has run on a record that was activated and     *)
(* then downgraded. *)
C14_Witness ==
    /\ pc = "returned"
    /\ last.op = "ensure_trial_initialized"
    /\ Loads(file)
    /\ is_none(Record(file).license_key)
    /\ is_none(Record(file).trial_started_at)
    /\ Record(file).trial_used

---------------------------------------------------------------------------
(* C15.  Trial idempotence.  On a record that has trial_started_at set,    *)
(* ensure_trial_initialized at any clock changes nothing and get_status    *)
(* leaves trial_started_at as it is; and ensure_trial_initialized leaves   *)
(* trial_started_at alone on every record whose trial_used is true.        *)

C15_TrialIdempotent ==
    [][ /\ ( /\ Completes("ensure_trial_initialized")
             /\ Loads(file)
             /\ is_some(Record(file).trial_started_at) )
           => (file' = file /\ last'.io = "none" /\ last'.result = Ok(<<>>))
        /\ ( /\ Completes("get_status")
             /\ Loads(file)
             /\ is_some(Record(file).trial_started_at) )
           => ( /\ Loads(file')
                /\ Record(file').trial_started_at
                     = Record(file).trial_started_at )
        /\ ( /\ Completes("ensure_trial_initialized")
             /\ Loads(file)
             /\ Record(file).trial_used )
           => ( /\ Loads(file')
                /\ Record(file').trial_started_at
                     = Record(file).trial_started_at ) ]_vars

(* A second ensure_trial_initialized, at another clock value than the      *)
(* trial's start. *)
C15_Witness ==
    /\ pc = "returned"
    /\ last.op = "ensure_trial_initialized"
    /\ last.io = "none"
    /\ Loads(file)
    /\ is_some(Record(file).trial_started_at)
    /\ ~ Record(file).trial_used
    /\ Record(file).trial_started_at # Some(clock)

---------------------------------------------------------------------------
(* C16.  New-device trial.  With no file, ensure_trial_initialized at      *)
(* clock t writes trial_started_at = t, trial_used = false, no license     *)
(* fields and last_seen_utc_time = t.  On that record (until a license is  *)
(* activated) a get_status at a clock in [t, t + 604800) that is not       *)
(* behind the watermark returns is_pro = true, is_trial = true and         *)
(* trial_ends_at = t + 604800; at a clock >= t + 604800 it returns         *)
(* is_pro = false and is_trial = false.                                    *)

C16_NewDeviceTrial ==
    [][ /\ (Completes("ensure_trial_initialized") /\ file = <<>>)
           => ( /\ Loads(file')
                /\ last'.io = "save"
                /\ Record(file').trial_started_at = Some(clock)
                /\ Record(file').trial_used = FALSE
                /\ is_none(Record(file').license_key)
                /\ is_none(Record(file').activated_at)
                /\ is_none(Record(file').last_validated_at)
                /\ Record(file').last_seen_utc_time = clock )
        /\ ( /\ Completes("get_status")
             /\ Loads(file)
             /\ is_none(Record(file).license_key)
             /\ ~ Record(file).trial_used
             /\ is_some(Record(file).trial_started_at)
             /\ clock >= Record(file).last_seen_utc_time
             /\ clock >= Record(file).trial_started_at[1] )
           => ( /\ last'.result.trial_ends_at
                     = Some(Record(file).trial_started_at[1] + 604800)
                /\ last'.result.is_pro
                     = (clock < Record(file).trial_started_at[1] + 604800)
                /\ last'.result.is_trial
                     = (clock < Record(file).trial_started_at[1] + 604800) )
      ]_vars

(* get_status one second before the trial ends. *)
C16_Witness ==
    /\ pc = "returned"
    /\ last.op = "get_status"
    /\ Loads(file)
    /\ is_none(Record(file).license_key)
    /\ ~ Record(file).trial_used
    /\ Record(file).trial_started_at = Some(1)
    /\ clock = 604800
    /\ last.result.is_pro
    /\ last.result.is_trial
    /\ last.result.trial_ends_at = Some(604801)

(* get_status at the second the trial ends. *)
C16_ReachedExpired ==
    /\ pc = "returned"
    /\ last.op = "get_status"
    /\ Loads(file)
    /\ ~ Record(file).trial_used
    /\ Record(file).trial_started_at = Some(1)
    /\ clock = 604801
    /\ ~ last.result.is_pro
    /\ ~ last.result.is_trial

---------------------------------------------------------------------------
(* C17.  Trial-to-license upgrade.  From a trial record, activate(key)     *)
(* with the server answering {success: true, activated_at: t1} leaves a    *)
(* record for which get_status reports is_pro = true, is_trial = false,    *)
(* the masked key and activated_at = t1; trial_started_at is preserved and *)
(* trial_used is true.                                                     *)

C17_Upgrade ==
    /\ pc = "activate"
    /\ Completes("activate")
    /\ Loads(file)
    /\ is_none(Record(file).license_key)
    /\ is_some(Record(file).trial_started_at)
    /\ last'.input.tag = "Ok"
    /\ last'.input.value.success
    /\ is_some(last'.input.value.activated_at)

C17_Upgraded ==
    /\ Loads(file')
    /\ Record(file').trial_started_at = Record(file).trial_started_at
    /\ Record(file').trial_used
    /\ get_status(file', clock).result.is_pro
    /\ ~ get_status(file', clock).result.is_trial
    /\ get_status(file', clock).result.license_key
         = Some(<<inflight[1].license_key[1], "****", "****",
                  inflight[1].license_key[Len(inflight[1].license_key)]>>)
    /\ get_status(file', clock).result.activated_at
         = last'.input.value.activated_at

(* C17 as stated: last_validated_at is the server's t1 too. *)
C17_UpgradeValidatedAtServerTime ==
    [][ C17_Upgrade =>
          /\ C17_Upgraded
          /\ get_status(file', clock).result.last_validated_at
               = last'.input.value.activated_at ]_vars

(* C17, amended: last_validated_at is the local clock at the time the      *)
(* answer is handled. *)
C17_UpgradeValidatedAtLocalTime ==
    [][ C17_Upgrade =>
          /\ C17_Upgraded
          /\ get_status(file', clock).result.last_validated_at = Some(clock)
      ]_vars

C17_Witness ==
    /\ pc = "returned"
    /\ last.op = "activate"
    /\ last.input.tag = "Ok"
    /\ last.input.value.success
    /\ is_some(last.input.value.activated_at)
    /\ Loads(file)
    /\ is_some(Record(file).trial_started_at)
    /\ Record(file).activated_at = last.input.value.activated_at
    /\ Record(file).last_validated_at = Some(clock)
    /\ Record(file).last_validated_at # Record(file).activated_at
    /\ get_status(file, clock).result.is_pro

---------------------------------------------------------------------------
(* C18.  A failed activation leaves the local state untouched.  When the   *)
(* server answers success = false, activate returns success = false with   *)
(* the server's error_code and error unchanged; on a network error it      *)
(* returns that error; in both cases the file is what it was (absent if it *)
(* was absent) and no store call is made.                                  *)

C18_FailedActivationWritesNothing ==
    [][ (pc = "activate" /\ Completes("activate")) =>
          /\ (last'.input.tag = "Err")
             => ( /\ last'.result = last'.input
                  /\ file' = file
                  /\ last'.io = "none" )
          /\ (last'.input.tag = "Ok" /\ ~ last'.input.value.success)
             => ( /\ last'.result
                       = Ok([success |-> FALSE,
                             error_code |-> last'.input.value.error_code,
                             error_message |-> last'.input.value.error])
                  /\ file' = file
                  /\ last'.io = "none" ) ]_vars

(* The server has rejected the key while a trial record is on disk. *)
C18_Witness ==
    /\ pc = "returned"
    /\ last.op = "activate"
    /\ last.input.tag = "Ok"
    /\ ~ last.input.value.success
    /\ last.result.value.error_code = Some("INVALID_KEY")
    /\ Loads(file)
    /\ is_none(Record(file).license_key)
    /\ is_some(Record(file).trial_started_at)

(* The activation has failed on a network error with no file on disk. *)
C18_ReachedAbsent ==
    /\ pc = "returned"
    /\ last.op = "activate"
    /\ last.result = NetworkError
    /\ file = <<>>

---------------------------------------------------------------------------
(* C19.  Deactivation.  With no record or no license key deactivate fails  *)
(* with NotFound and makes no request; a request is made only with the     *)
(* record's key.  After a request the file is deleted exactly when the     *)
(* server answers success = true; a business failure returns ApiError with *)
(* the server's code, a network error returns that error, and both leave   *)
(* the record unchanged.                                                   *)

C19_Deactivation ==
    [][ /\ (pc = "idle" /\ Completes("deactivate"))
           => ( /\ (file = <<>> \/ is_none(Record(file).license_key))
                /\ last'.result = Err("NotFound")
                /\ last'.io = "none"
                /\ file' = file )
        /\ (pc = "idle" /\ pc' = "deactivate")
           => ( /\ Loads(file)
                /\ Record(file).license_key
                     = Some(inflight'[1].license_key)
                /\ file' = file )
        /\ (pc = "deactivate" /\ Completes("deactivate"))
           => ( /\ (file' = <<>>)
                     <=> (last'.input.tag = "Ok" /\ last'.input.value.success)
                /\ (file' # <<>>) => (file' = file /\ last'.io = "none")
                /\ (last'.input.tag = "Ok" /\ last'.input.value.success)
                     => (last'.result = Ok(<<>>) /\ last'.io = "delete")
                /\ (last'.input.tag = "Ok" /\ ~ last'.input.value.success)
                     => ( /\ last'.result.tag = "Err"
                          /\ Some(last'.result.error.code)
                               = IF is_some(last'.input.value.error_code)
                                 THEN last'.input.value.error_code
                                 ELSE Some("") )
                /\ (last'.input.tag = "Err")
                     => last'.result = last'.input ) ]_vars

(* The server has refused the deactivation and the licensed record is      *)
(* still there. *)
C19_Witness ==
    /\ pc = "returned"
    /\ last.op = "deactivate"
    /\ last.input # <<>>
    /\ last.input.tag = "Ok"
    /\ ~ last.input.value.success
    /\ last.result.tag = "Err"
    /\ last.result.error.code = "REVOKED"
    /\ Loads(file)
    /\ is_some(Record(file).license_key)

(* deactivate has failed with NotFound on a trial record. *)
C19_ReachedNotFound ==
    /\ pc = "returned"
    /\ last.op = "deactivate"
    /\ last.input = <<>>
    /\ last.result = Err("NotFound")
    /\ Loads(file)

(* deactivate has deleted the record. *)
C19_ReachedDeleted ==
    /\ pc = "returned"
    /\ last.op = "deactivate"
    /\ last.result = Ok(<<>>)
    /\ file = <<>>

---------------------------------------------------------------------------
(* C20.  Convergence after cancellation.  When activate, deactivate or     *)
(* validate_background has been dropped once the server had accepted the   *)
(* request, and the next call is a validate_background that completes      *)
(* without a network error, the local record then agrees with the server:  *)
(* licensed with the server's key and validated at the current clock when  *)
(* the server holds the device as activated, without a license when it     *)
(* does not.                                                               *)

C20_Agrees ==
    IF is_some(server'.holds)
    THEN /\ Loads(file')
         /\ Record(file').license_key = server'.holds
         /\ Record(file').last_validated_at = Some(clock')
    ELSE file' = <<>> \/ is_none(Record(file').license_key)

C20_ConvergesAfterCancellation ==
    [][ ( /\ cancelled # "none"
          /\ Completes("validate_background")
          /\ last'.input # NetworkError )
        => C20_Agrees ]_vars

(* The part of C20 that holds: a dropped deactivate or validate_background *)
(* is made up for by the next validate_background the server answers.      *)
C20_ConvergesAfterDeactivateOrValidate ==
    [][ ( /\ cancelled \in {"deactivate", "validate"}
          /\ Completes("validate_background")
          /\ last'.input # NetworkError )
        => C20_Agrees ]_vars

(* A dropped activate has not been made up for: the server holds the       *)
(* device as activated, validate_background has returned, and the record   *)
(* has no license. *)
C20_ReachedDiverged ==
    /\ pc = "returned"
    /\ last.op = "validate_background"
    /\ last.input = <<>>
    /\ is_some(server.holds)
    /\ Loads(file)
    /\ is_none(Record(file).license_key)

(* A dropped deactivate has been made up for: the server had unbound the   *)
(* device and the next validate_background downgraded the record.          *)
C20_ReachedConverged ==
    /\ pc = "returned"
    /\ last.op = "validate_background"
    /\ last.result = Ok(ValidationResult(FALSE, TRUE, FALSE))
    /\ is_none(server.holds)
    /\ Loads(file)
    /\ is_none(Record(file).license_key)

---------------------------------------------------------------------------
(* The sealed stores (SpecStore). *)

Whole(f) == f = <<>> \/ f[1].bytes = "whole"

(* A file that a store under device_id wrote with the given key derivation *)
(* and that is whole on disk.                                              *)
SealedUnder(f, key) == f # <<>> /\ f[1].bytes = "whole" /\ f[1].key = key

(* C21: whenever no save is running (after a save has returned, or after   *)
(* the process died during one), each of the two files on disk is absent   *)
(* or complete: never empty, never partly written.                         *)
C21_SaveAtomic == pc # "saving" => Whole(file) /\ Whole(cred_file)

C21_ReachedTorn ==
    pc = "idle" /\ file # <<>> /\ file[1].bytes = "part"

C22_ReachedCredentials ==
    /\ pc = "returned"
    /\ last.op = "credentials_save"
    /\ last.input.user_email = Some("")
    /\ cred_load(device, cred_file).result = Ok(last.input)

(* C23: a load under device D2 of a file that a store under another device *)
(* D1 saved returns an error, and the file is gone when the load returns;  *)
(* for the entitlement file and for the credential file.                   *)
C23_DeviceBindingDeletes ==
    [][ /\ ( /\ Completes("license_load")
             /\ SealedUnder(file, derive_encryption_key(OtherDevice(device)))
             => last'.branch # "Ok" /\ file' = <<>> )
        /\ ( /\ Completes("credentials_load")
             /\ SealedUnder(cred_file,
                            cred_derive_encryption_key(OtherDevice(device)))
             => last'.branch # "Ok" /\ cred_file' = <<>> )
      ]_vars

C23_ReachedKept ==
    /\ pc = "returned"
    /\ last.op = "credentials_load"
    /\ last.branch = "DecryptionFailed"
    /\ SealedUnder(cred_file, cred_derive_encryption_key(OtherDevice(device)))

(* The credential file decrypts under the store's key and decodes. *)
CredentialsDecrypt ==
    /\ SealedUnder(cred_file, cred_derive_encryption_key(device))
    /\ "access_token" \in DOMAIN cred_file[1].plaintext

(* C24: when the credential file decrypts, a record with another device_id *)
(* gives DeviceMismatch whatever its signature and the file is removed; a  *)
(* record with the store's device_id and a signature that does not verify  *)
(* gives SignatureInvalid and the file is removed; a record passing both   *)
(* is returned and the file stays.                                         *)
C24_CredentialLoadChecks ==
    [][ Completes("credentials_load") /\ CredentialsDecrypt =>
          LET creds == cred_from_slice(cred_file[1].plaintext)
          IN  IF creds.device_id # device
              THEN last'.result = Err("DeviceMismatch") /\ cred_file' = <<>>
              ELSE IF ~ cred_verify_signature(creds)
              THEN last'.result = Err("SignatureInvalid") /\ cred_file' = <<>>
              ELSE last'.result = Ok(creds) /\ cred_file' = cred_file
      ]_vars

C24_Witness ==
    /\ pc = "returned"
    /\ last.op = "credentials_load"
    /\ last.branch = "DeviceMismatch"
    /\ last.io = "delete"
    /\ cred_file = <<>>

C24_ReachedSignatureInvalid ==
    /\ pc = "returned"
    /\ last.op = "credentials_load"
    /\ last.branch = "SignatureInvalid"
    /\ cred_file = <<>>

(* The entitlement file decrypts under the store's key and decodes. *)
LicenseDecrypts ==
    /\ SealedUnder(file, derive_encryption_key(device))
    /\ "trial_used" \in DOMAIN file[1].plaintext

(* C25: when the entitlement file decrypts, a record with another          *)
(* device_id gives DeviceMismatch and the file is removed; a record with   *)
(* the store's device_id and a signature that does not verify gives        *)
(* SignatureInvalid and the file is removed.                               *)
C25_LicenseLoadChecks ==
    [][ Completes("license_load") /\ LicenseDecrypts =>
          LET data == from_slice(file[1].plaintext)
          IN  IF data.device_id # device
              THEN last'.branch = "DeviceMismatch" /\ file' = <<>>
              ELSE IF ~ verify_signature(data)
              THEN last'.branch = "SignatureInvalid" /\ file' = <<>>
              ELSE TRUE
      ]_vars

C25_ReachedKept ==
    /\ pc = "returned"
    /\ last.op = "license_load"
    /\ last.branch = "SignatureInvalid"
    /\ LicenseDecrypts

(* C26: under one device, CredentialStore::load of a file that             *)
(* LicenseStore::save wrote, and LicenseStore::load of a file that         *)
(* CredentialStore::save wrote, return the store's decryption error.       *)
C26_RecordTypeSeparation ==
    [][ /\ ( /\ Completes("credentials_load")
             /\ SealedUnder(cred_file, derive_encryption_key(device))
             => last'.result = Err("DecryptionFailed") )
        /\ ( /\ Completes("license_load")
             /\ SealedUnder(file, cred_derive_encryption_key(device))
             => last'.branch = "CryptoError" )
      ]_vars

C26_Witness ==
    /\ pc = "returned"
    /\ last.op = "credentials_load"
    /\ last.branch = "DecryptionFailed"
    /\ SealedUnder(cred_file, derive_encryption_key(device))

C26_ReachedLicenseSide ==
    /\ pc = "returned"
    /\ last.op = "license_load"
    /\ last.branch = "CryptoError"
    /\ SealedUnder(file, cred_derive_encryption_key(device))

(* C27: for the record of new_trial, new_with_license or set_license that  *)
(* is on disk, giving any one covered field any other value, absent to     *)
(* present and present to absent included, and keeping the signature,      *)
(* yields a record that does not verify.                                   *)
C27_TamperBreaksSignature ==
    LicenseDecrypts /\ from_slice(file[1].plaintext) \in LicenseSaves(device)
    => LET d == from_slice(file[1].plaintext)
       IN  /\ verify_signature(d)
           /\ \A field \in LicenseFields :
                \A value \in LicenseFieldValues(field) :
                   value # d[field]
                   => ~ verify_signature([d EXCEPT ![field] = value])

C27_ReachedForged ==
    /\ LicenseDecrypts
    /\ from_slice(file[1].plaintext) \notin LicenseSaves(device)
    /\ load(device, file).tag = "Ok"

(* The five signed fields of a credential record. *)
cred_tuple(c) ==
    <<c.access_token, c.refresh_token, c.expires_at, c.user_email,
      c.folder_id>>

(* C28: the credential record on disk verifies, and every record of the    *)
(* same device_id whose five signed fields differ from its own has another *)
(* signature.                                                              *)
C28_CredentialSignatureInjective ==
    CredentialsDecrypt
    /\ cred_from_slice(cred_file[1].plaintext) \in CredentialSaves(device)
    => LET c == cred_from_slice(cred_file[1].plaintext)
       IN  /\ cred_verify_signature(c)
           /\ \A c2 \in CredentialSaves(device) :
                cred_tuple(c2) # cred_tuple(c) => c2.signature # c.signature

---------------------------------------------------------------------------
(* The credential commands (SpecCredentials). *)

(* C29: when the stored token is expiring, the refresh request carries the *)
(* stored refresh_token; on a successful answer the call returns the       *)
(* record with the new access token and expiry, signed again, and that     *)
(* record is what a completed save leaves on disk; on a failed answer the  *)
(* call returns an error.                                                  *)
C29_RefreshPolicy ==
    [][ /\ ( pc = "idle" /\ pc' = "refreshing" =>
               /\ cred_is_token_expiring(inflight'[1].creds, clock)
               /\ inflight'[1].refresh_token
                    = cred_load(device, cred_file).result.value.refresh_token )
        /\ ( Completes("get_valid_credentials") /\ pc = "refreshing" =>
               IF last'.input.response.tag = "Ok"
               THEN /\ last'.result.tag = "Ok"
                    /\ last'.result.value.access_token
                         = last'.input.response.value.access_token
                    /\ last'.result.value.expires_at
                         = clock + last'.input.response.value.expires_in
                    /\ cred_verify_signature(last'.result.value)
                    /\ last'.input.save = "written"
                       => cred_file' = cred_save(device, last'.result.value)
               ELSE last'.result.tag = "Err" )
      ]_vars

C29_ReachedStale ==
    /\ pc = "returned"
    /\ last.op = "get_valid_credentials"
    /\ last.branch = "refresh_failed"
    /\ last.result.tag = "Ok"
    /\ cred_is_token_expiring(last.result.value, clock)

C29_ReachedRefreshed ==
    /\ pc = "returned"
    /\ last.op = "get_valid_credentials"
    /\ last.branch = "refreshed"
    /\ cred_load(device, cred_file).result = last.result

(* The record migrate_from_keyring builds from the keyring entry. *)
Migrated(device_id, kr) ==
    cred_new(device_id, kr[1].access_token, kr[1].refresh_token,
             kr[1].expires_at, kr[1].user_email, kr[1].folder_id)

(* C30: in every call of migrate_credentials, clear_tokens is called only  *)
(* after a save that succeeded, and the keyring entry goes only when the   *)
(* sealed file holds its tokens; a failed save leaves the keyring entry    *)
(* and returns an error; with a sealed file present, or no tokens in the   *)
(* keyring, the call returns not_needed and changes nothing; a failed      *)
(* clear_tokens still returns migrated.                                    *)
C30_MigrationKeepsTokens ==
    [][ Completes("migrate_credentials") =>
          LET called(c) == \E i \in DOMAIN last'.io : last'.io[i] = c
              saves == cred_file = <<>> /\ keyring # <<>>
                       /\ last'.input.read = "ok"
          IN  /\ called("clear_tokens")
                 => /\ \E i, j \in DOMAIN last'.io :
                         /\ i < j
                         /\ last'.io[i] = "save"
                         /\ last'.io[j] = "clear_tokens"
                    /\ last'.input.save = "written"
              /\ keyring' # keyring
                 => /\ keyring' = <<>>
                    /\ cred_load(device, cred_file').result
                         = Ok(Migrated(device, keyring))
              /\ saves /\ last'.input.save # "written"
                 => keyring' = keyring /\ last'.result.tag = "Err"
              /\ cred_file # <<>> \/ keyring = <<>>
                 => /\ last'.result = Ok("not_needed")
                    /\ UNCHANGED <<cred_file, keyring>>
              /\ saves /\ last'.input.save = "written"
                 => /\ last'.result = Ok("migrated")
                    /\ last'.input.clear = "error" => keyring' = keyring
      ]_vars

C30_Witness ==
    /\ pc = "returned"
    /\ last.op = "migrate_credentials"
    /\ last.result = Ok("migrated")
    /\ last.input.clear = "ok"
    /\ keyring = <<>>
    /\ cred_load(device, cred_file).result.tag = "Ok"

C30_ReachedSaveFailed ==
    /\ pc = "returned"
    /\ last.op = "migrate_credentials"
    /\ last.result.tag = "Err"
    /\ keyring # <<>>

C30_ReachedClearFailed ==
    /\ pc = "returned"
    /\ last.op = "migrate_credentials"
    /\ last.result = Ok("migrated")
    /\ last.input.clear = "error"
    /\ keyring # <<>>

C30_ReachedSecondCall ==
    /\ pc = "returned"
    /\ last.op = "migrate_credentials"
    /\ last.result = Ok("not_needed")
    /\ keyring = <<>>
    /\ cred_load(device, cred_file).result.tag = "Ok"
    /\ last.input.read = "ok"

---------------------------------------------------------------------------
(* The manager on one device, continued. *)

(* C33: whatever the manager has written, the file on disk holds a record  *)
(* with the manager's device_id and a signature that verifies, so a load   *)
(* returns the record and never SignatureInvalid.                          *)
C33_ManagerWritesVerify ==
    file # <<>>
    => /\ load(DeviceId, file).tag = "Ok"
       /\ Record(file).device_id = DeviceId
       /\ verify_signature(Record(file))

C33_Witness ==
    /\ pc = "returned"
    /\ last.op = "validate_background"
    /\ last.branch = "offline_grace"
    /\ last.io = "save"
    /\ Loads(file)
    /\ is_some(Record(file).trial_started_at)

C33_ReachedDowngraded ==
    /\ pc = "returned"
    /\ last.op = "validate_background"
    /\ last.branch = "revoked"
    /\ Loads(file)

(* C34: once a get_status with a sane clock has found the trial of the     *)
(* record over, no later get_status on a record with that trial start      *)
(* reports is_trial, whatever the clock is set to and whatever calls come  *)
(* in between.                                                             *)
C34_TrialExpiryRatchet ==
    [][ /\ Completes("get_status")
        /\ Loads(file)
        /\ is_some(Record(file).trial_started_at)
        /\ Record(file).trial_started_at[1] \in history.expired
        => ~ last'.result.is_trial
      ]_vars

(* The same for a record that has not been licensed since the trial was    *)
(* found over.                                                             *)
C34_RatchetWithoutActivation ==
    [][ /\ Completes("get_status")
        /\ Loads(file)
        /\ is_some(Record(file).trial_started_at)
        /\ Record(file).trial_started_at[1] \in history.expired
        /\ ~ Record(file).trial_used
        => ~ last'.result.is_trial
      ]_vars

C34_ReachedRevived ==
    /\ pc = "returned"
    /\ last.op = "get_status"
    /\ last.result.is_trial
    /\ Loads(file)
    /\ Record(file).trial_started_at[1] \in history.expired

C34_ReachedHeld ==
    /\ pc = "returned"
    /\ last.op = "get_status"
    /\ last.branch = "tamper"
    /\ Loads(file)
    /\ ~ Record(file).trial_used
    /\ Record(file).trial_started_at[1] \in history.expired

(* C38: under a clock that never moves backward, from a downgrade by       *)
(* validate_background for an exceeded grace period until the next         *)
(* successful activate, every get_status reports is_pro = false.           *)
C38_GraceDowngradeEndsPro ==
    [][ Completes("get_status") /\ history.lapsed
        => ~ last'.result.is_pro /\ ~ last'.result.is_trial
      ]_vars

C38_Witness ==
    /\ pc = "returned"
    /\ last.op = "get_status"
    /\ last.branch = "sane"
    /\ history.lapsed
    /\ Loads(file)
    /\ is_some(Record(file).trial_started_at)

(* C40: from a successful deactivate of a record whose trial was used or   *)
(* over until the next successful activate, no get_status reports          *)
(* is_trial or is_pro.                                                     *)
C40_DeactivationForfeitsTrial ==
    [][ Completes("get_status") /\ history.forfeited
        => ~ last'.result.is_trial /\ ~ last'.result.is_pro
      ]_vars

C40_ReachedNewTrial ==
    /\ pc = "returned"
    /\ last.op = "get_status"
    /\ last.result.is_trial
    /\ history.forfeited

---------------------------------------------------------------------------
(* The manager over a file that does not load (SpecCorrupt). *)

(* The file is there and load returns an error. *)
Unloadable(f) == f # <<>> /\ load(DeviceId, f).tag # "Ok"

(* C32: an error of the store or of the server inside activate, deactivate *)
(* or validate_background is the error the caller gets; a load error       *)
(* other than NotFound during activate is returned and the file is left    *)
(* as it is.                                                               *)
C32_ErrorsPropagate ==
    [][ /\ ( Completes("activate") /\ last'.input.tag = "Err"
             => last'.result = last'.input /\ file' = file )
        /\ ( /\ Completes("activate")
             /\ last'.input.tag = "Ok"
             /\ last'.input.value.success
             /\ Unloadable(file)
             => /\ last'.result = Err(load(DeviceId, file).tag)
                /\ file' = file )
        /\ ( Completes("deactivate") /\ pc = "idle" /\ Unloadable(file)
             => last'.result = Err(load(DeviceId, file).tag) )
        /\ ( Completes("deactivate") /\ pc = "deactivate"
                                     /\ last'.input.tag = "Err"
             => last'.result = last'.input /\ file' = file )
        /\ ( Completes("validate_background") /\ pc = "idle"
                                              /\ Unloadable(file)
             => last'.result = Err(load(DeviceId, file).tag) )
      ]_vars

(* C39: a file that is there and does not load is left as it is by         *)
(* ensure_trial_initialized, get_status, validate_background and           *)
(* deactivate; the first, third and fourth return load's error, get_status *)
(* the all-false status; a successful activate writes a new record over    *)
(* it.                                                                     *)
C39_UnloadableFileKept ==
    [][ Unloadable(file) =>
          /\ ( Completes("ensure_trial_initialized")
               => /\ file' = file
                  /\ last'.result = Err(load(DeviceId, file).tag) )
          /\ ( Completes("get_status")
               => file' = file /\ last'.result = DefaultStatus )
          /\ ( Completes("validate_background")
               => /\ file' = file
                  /\ last'.result = Err(load(DeviceId, file).tag) )
          /\ ( Completes("deactivate")
               => /\ file' = file
                  /\ last'.result = Err(load(DeviceId, file).tag) )
          /\ ( Completes("activate") /\ last'.branch # "created"
               => file' = file )
          /\ ( Completes("activate") /\ last'.branch = "created"
               => /\ Loads(file')
                  /\ Record(file').license_key
                       = Some(inflight[1].license_key) )
      ]_vars

C39_Witness ==
    /\ pc = "returned"
    /\ last.op = "ensure_trial_initialized"
    /\ last.result = Err("SignatureInvalid")
    /\ Unloadable(file)

C39_ReachedDefault ==
    /\ pc = "returned"
    /\ last.op = "get_status"
    /\ last.result = DefaultStatus
    /\ Unloadable(file)
    /\ load(DeviceId, file).tag = "CryptoError"

---------------------------------------------------------------------------
(* The PRO gate (SpecSync). *)

(* C37: the status that auto_sync_to_drive reads is the status that        *)
(* get_license_status would return at that moment; with a license on disk  *)
(* that is fresh under a sane clock, it has is_pro = true and the sync     *)
(* goes ahead.                                                             *)
C37_GateReadsTheLicense ==
    [][ Completes("auto_sync_to_drive") =>
          /\ last'.result = get_status(file, clock).result
          /\ ( /\ Loads(file)
               /\ has_license(Record(file))
               /\ get_status(file, clock).result.is_pro
               => last'.result.is_pro
                  /\ last'.branch = "sync_bidirectional" )
      ]_vars

C37_ReachedRefused ==
    /\ pc = "returned"
    /\ last.op = "auto_sync_to_drive"
    /\ last.branch = "not_pro"
    /\ Loads(file)
    /\ has_license(Record(file))
    /\ get_status(file, clock).result.is_pro

---------------------------------------------------------------------------
(* Two callers at once (SpecConcurrent). *)

(* C35: when get_status of the second caller saves while an activate of    *)
(* the first has succeeded and its license is on disk, the record on disk  *)
(* afterwards still holds that license_key, activated_at and               *)
(* last_validated_at.                                                      *)
C35_StatusKeepsActivation ==
    [][ /\ bg.pc = "get_status"
        /\ bg'.pc = "returned"
        /\ pc = "returned"
        /\ last.op = "activate"
        /\ last.branch \in {"upgraded", "created"}
        /\ Loads(file)
        /\ has_license(Record(file))
        => /\ Loads(file')
           /\ Record(file').license_key = Record(file).license_key
           /\ Record(file').activated_at = Record(file).activated_at
           /\ Record(file').last_validated_at = Record(file).last_validated_at
      ]_vars

C35_ReachedLost ==
    /\ pc = "returned"
    /\ last.op = "activate"
    /\ last.branch = "upgraded"
    /\ bg.pc = "returned"
    /\ bg.last.op = "get_status"
    /\ bg.last.io = "save"
    /\ Loads(file)
    /\ ~ has_license(Record(file))

(* C36: when validate_background of the second caller completes after a   *)
(* deactivate of the first has deleted the file, there is still no file    *)
(* holding a license_key.                                                  *)
C36_DeactivateIsFinal ==
    [][ /\ bg.pc = "validate"
        /\ bg'.pc = "returned"
        /\ pc = "returned"
        /\ last.op = "deactivate"
        /\ last.branch = "deleted"
        /\ file = <<>>
        => ~ (Loads(file') /\ has_license(Record(file')))
      ]_vars

C36_ReachedRestored ==
    /\ pc = "returned"
    /\ last.op = "deactivate"
    /\ last.branch = "deleted"
    /\ bg.pc = "returned"
    /\ bg.last.op = "validate_background"
    /\ bg.last.branch = "validated"
    /\ Loads(file)
    /\ has_license(Record(file))

---------------------------------------------------------------------------
(* The fallback fingerprint under two callers (SpecDeviceId). *)

(* The call that answered l took the fallback path. *)
FallbackAnswer(l) ==
    /\ l.op = "generate"
    /\ l.branch \in {"read", "created"}

(* C31: while a caller holds a fallback UUID F that generate has returned, *)
(* .device_uuid holds F and no step rewrites it, and a generate call of    *)
(* the other caller that returns on the fallback path returns F; two       *)
(* first-time calls running at once included.                              *)
C31_FallbackStable ==
    [][ /\ pc = "returned" /\ FallbackAnswer(last)
           => /\ uuid_file = Some(last.result)
              /\ uuid_file' = uuid_file
              /\ bg.pc # "returned" /\ bg'.pc = "returned"
                     /\ FallbackAnswer(bg'.last)
                 => bg'.last.result = last.result
        /\ bg.pc = "returned" /\ FallbackAnswer(bg.last)
           => /\ uuid_file = Some(bg.last.result)
              /\ uuid_file' = uuid_file
              /\ pc # "returned" /\ pc' = "returned"
                     /\ FallbackAnswer(last')
                 => last'.result = bg.last.result
      ]_vars

C31_ReachedTwoFingerprints ==
    /\ pc = "returned"
    /\ bg.pc = "returned"
    /\ FallbackAnswer(last)
    /\ FallbackAnswer(bg.last)
    /\ last.result # bg.last.result
    /\ last.result \in {<<u>> : u \in Uuids}
    /\ bg.last.result \in {<<u>> : u \in Uuids}

C31_ReachedEmptyFingerprint ==
    /\ pc = "returned"
    /\ FallbackAnswer(last)
    /\ last.result = <<>>

=============================================================================
